---- MODULE Spec2Model ----
(***************************************************************************)
(* He-3 polarization plotter: the parameter store, the axis ranges, the    *)
(* render/effect cycle of the PolarizationPlot component and the two       *)
(* series generators (time sweep, wavelength-or-energy sweep).             *)
(*                                                                         *)
(* Numbers of the user interface (parameters, axis bounds) are fixed-point *)
(* with two decimals: the integer v stands for v / Unit.  The sweeps run   *)
(* on IEEE-754 binary64 values, modelled further below.                    *)
(***************************************************************************)
EXTENDS Integers, Sequences, FiniteSets, TLC

\* ------------------------------------------------------------------ bounds
\* Number of user operations explored from the first render.
MaxOps == 3

\* ----------------------------------------------------------- number model
Unit == 10 * 10

\* A parsed number is <<v>>; the JavaScript NaN is the empty tuple.
NaN == <<>>

Num(v) == <<v>>

DigitChars == <<"0", "1", "2", "3", "4", "5", "6", "7", "8", "9">>

IsDigit(c) == \E i \in 1..10 : DigitChars[i] = c

DigitVal(c) == (CHOOSE i \in 1..10 : DigitChars[i] = c) - 1

\* A text is a sequence of characters, as typed into an <input type="number">.
RECURSIVE DigitsValue(_, _)
DigitsValue(s, acc) ==
    IF s = <<>> THEN acc ELSE DigitsValue(Tail(s), acc * 10 + DigitVal(Head(s)))

AllDigits(s) == s # <<>> /\ \A i \in 1..Len(s) : IsDigit(s[i])

\* Value of an unsigned decimal literal "ddd" or "ddd.d" or "ddd.dd", scaled
\* by Unit; NaN when the text is no such literal.
UnsignedValue(s) ==
    LET dots == {i \in 1..Len(s) : s[i] = "."}
    IN  IF dots = {}
        THEN IF AllDigits(s) THEN Num(DigitsValue(s, 0) * Unit) ELSE NaN
        ELSE LET d == CHOOSE i \in dots : TRUE
                 ip == SubSeq(s, 1, d - 1)
                 fp == SubSeq(s, d + 1, Len(s))
             IN  IF Cardinality(dots) = 1 /\ AllDigits(ip) /\ AllDigits(fp) /\ Len(fp) <= 2
                 THEN Num(DigitsValue(ip, 0) * Unit
                          + (IF Len(fp) = 1 THEN 10 * DigitsValue(fp, 0)
                                            ELSE DigitsValue(fp, 0)))
                 ELSE NaN

SignedValue(s) ==
    IF s # <<>> /\ Head(s) = "-"
    THEN LET v == UnsignedValue(Tail(s)) IN IF v = NaN THEN NaN ELSE Num(0 - v[1])
    ELSE UnsignedValue(s)

\* Number(text): the empty text converts to 0.
Number(s) == IF s = <<>> THEN Num(0) ELSE SignedValue(s)

\* parseFloat(text): the longest leading part of the text that is a decimal
\* literal is converted and the rest is ignored; NaN when no leading part is
\* one (the empty text included).
parseFloat(s) ==
    LET ks == {k \in 1..Len(s) : SignedValue(SubSeq(s, 1, k)) # NaN}
    IN  IF ks = {} THEN NaN
        ELSE SignedValue(SubSeq(s, 1, CHOOSE k \in ks : \A j \in ks : j <= k))

\* v || d on numbers: 0 and NaN are falsy.
OrElse(v, d) == IF v = NaN \/ v = Num(0) THEN d ELSE v[1]

\* The committed and the draft energy are held exactly, as the fraction
\* <<n, d>> = n / d meV in lowest terms (d > 0), so that 81.81 / (val * val)
\* loses nothing.
RECURSIVE GCD(_, _)
GCD(a, b) == IF b = 0 THEN a ELSE GCD(b, a % b)

Rat(n, d) == LET g == GCD(n, d) IN IF n = 0 THEN <<0, 1>> ELSE <<n \div g, d \div g>>

\* The fraction of a two-decimal number v / Unit, v >= 0.
RatOf(v) == Rat(v, Unit)

\* An input that handed the typed characters over unchecked.
NumberInputValue_Raw(typed) == typed

\* The value an <input type="number"> hands to its onChange handler for the
\* characters typed into it: the characters when they form a valid number, the
\* empty string otherwise.
NumberInputValue(typed) == IF SignedValue(typed) # NaN THEN typed ELSE <<>>

\* A log mode that used the minimum unfloored.
LogFloor_Unfloored(x) == x

\* Math.max(0.1, x) of the log-scale floor.
LogFloor(x) == IF x < Unit \div 10 THEN Unit \div 10 ELSE x

\* ------------------------------------------------------------------ state
VARIABLES
    params,       \* committed parameter set
    tempParams,   \* draft (edit buffer)
    axisRanges,   \* axis range texts of both charts
    isLogScale,   \* Neutron X axis scale flag
    energyUnit,   \* unit selector of the "Energy or Wavelength" draft input
    he3Data,      \* series of the He-3 chart
    neutronData,  \* series of the Neutron chart
    effects,      \* effects scheduled by the last render: <<first, second>>
    hung,         \* a sweep of the component never returned
    lastOp,       \* the handler (or effect pass) that produced this state
    nOps,         \* number of user operations so far
    sw,           \* the stand-alone sweep in progress
    plot,         \* the measured data list: data, its two inputs, the last download
    activeTab     \* the tab shown by TabContainer

uiVars == <<params, tempParams, axisRanges, isLogScale, energyUnit,
            he3Data, neutronData, effects, hung, lastOp, nOps, plot, activeTab>>

vars == <<params, tempParams, axisRanges, isLogScale, energyUnit,
          he3Data, neutronData, effects, hung, lastOp, nOps, sw, plot, activeTab>>

InitialParams ==
    [ initialPolarization    |-> 70 * Unit,
      relaxationTimeConstant |-> 100 * Unit,
      xAxisUnit              |-> "wavelength",
      neutronParams          |-> [ gasThickness    |-> 10 * Unit,
                                   energy          |-> RatOf(1470),
                                   he3Polarization |-> 70 * Unit ] ]

InitialAxisRanges ==
    [ he3     |-> [ xMin |-> <<"0">>, xMax |-> <<"1", "0", "0">>,
                    yMin |-> <<"0">>, yMax |-> <<"1", "0", "0">> ],
      neutron |-> [ xMin |-> <<"0">>, xMax |-> <<"1", "0", "0">>,
                    yMin |-> <<"0">>, yMax |-> <<"1", "0", "0">> ] ]

\* ----------------------------------------------------- series (UI level)
\* At the level of the component a series is identified by the arguments of
\* the sweep that produced it: the parsed bounds and the committed fields the
\* sweep reads.  The point lists themselves are produced by the sweep
\* machines further below.  The empty list is <<>>.
He3XMin(ranges) == OrElse(Number(ranges.he3.xMin), 0)

He3XMax(ranges) == OrElse(Number(ranges.he3.xMax), 24 * Unit)

NeutronXMin(ranges) == OrElse(Number(ranges.neutron.xMin), 0)

NeutronXMax(ranges) == OrElse(Number(ranges.neutron.xMax), 10 * Unit)

\* for (x = xMin; x <= xMax; x += step) with step = (xMax - xMin) / n never
\* leaves the loop when the step is 0.
LoopNeverEnds(xMin, xMax) == xMin <= xMax /\ xMax - xMin = 0

calculateHe3Polarization(currentParams, ranges) ==
    [ xMin                   |-> He3XMin(ranges),
      xMax                   |-> He3XMax(ranges),
      initialPolarization    |-> currentParams.initialPolarization,
      relaxationTimeConstant |-> currentParams.relaxationTimeConstant,
      energy                 |-> currentParams.neutronParams.energy,
      gasThickness           |-> currentParams.neutronParams.gasThickness ]

He3Hangs(ranges) == LoopNeverEnds(He3XMin(ranges), He3XMax(ranges))

calculateNeutronProperties(currentParams, ranges, log) ==
    [ xMin            |-> IF log THEN LogFloor(NeutronXMin(ranges))
                                 ELSE NeutronXMin(ranges),
      xMax            |-> NeutronXMax(ranges),
      log             |-> log,
      xAxisUnit       |-> currentParams.xAxisUnit,
      he3Polarization |-> currentParams.neutronParams.he3Polarization,
      gasThickness    |-> currentParams.neutronParams.gasThickness ]

NeutronHangs(ranges, log) ==
    ~log /\ LoopNeverEnds(NeutronXMin(ranges), NeutronXMax(ranges))

\* The X domains handed to the two charts.
He3XAxisDomain(ranges) ==
    << OrElse(Number(ranges.he3.xMin), 0), OrElse(Number(ranges.he3.xMax), 24 * Unit) >>

\* A Neutron domain that left the minimum unfloored on the log scale.
NeutronXAxisDomain_Unfloored(ranges, log) ==
    << OrElse(Number(ranges.neutron.xMin), 0),
       OrElse(Number(ranges.neutron.xMax), 10 * Unit) >>

NeutronXAxisDomain(ranges, log) ==
    << IF log THEN LogFloor(OrElse(Number(ranges.neutron.xMin), Unit \div 10))
              ELSE OrElse(Number(ranges.neutron.xMin), 0),
       OrElse(Number(ranges.neutron.xMax), 10 * Unit) >>

\* ------------------------------------------------------------ user inputs
\* Texts typed into the draft inputs and into the axis-range inputs.
DraftTexts == { <<>>, <<"5", "0">> }

AxisTexts == { <<>>, <<"5", "0">>, <<"1", "0", "0">> }

Graphs == {"he3", "neutron"}

Fields == {"xMin", "xMax", "yMin", "yMax"}

UserMayAct ==
    activeTab = "plot" /\ ~hung /\ effects = <<FALSE, FALSE>> /\ nOps < MaxOps

\* What every handler leaves behind besides its own writes.
Handled(op) ==
    /\ lastOp' = op
    /\ nOps' = nOps + 1
    /\ sw' = sw
    /\ plot' = plot
    /\ activeTab' = activeTab

\* ---------------------------------------------------------- draft editing
\* A draft handler that wrote the committed set on every keystroke.
InitialPolarizationChange_Keystroke(text) ==
    /\ UserMayAct
    /\ tempParams' = [tempParams EXCEPT
                        !.initialPolarization = OrElse(parseFloat(text), 0)]
    /\ params' = [params EXCEPT
                        !.initialPolarization = OrElse(parseFloat(text), 0)]
    /\ Handled("InitialPolarizationChange")
    /\ UNCHANGED <<axisRanges, isLogScale, energyUnit, he3Data,
                   neutronData, effects, hung>>

InitialPolarizationChange(text) ==
    /\ UserMayAct
    /\ tempParams' = [tempParams EXCEPT
                        !.initialPolarization = OrElse(parseFloat(text), 0)]
    /\ Handled("InitialPolarizationChange")
    /\ UNCHANGED <<params, axisRanges, isLogScale, energyUnit, he3Data,
                   neutronData, effects, hung>>

\* A relaxation-time input that applied each keystroke to the committed set.
RelaxationTimeChange_Applied(text) ==
    /\ UserMayAct
    /\ tempParams' = [tempParams EXCEPT
                        !.relaxationTimeConstant = OrElse(parseFloat(text), 0)]
    /\ params' = [params EXCEPT
                        !.relaxationTimeConstant = OrElse(parseFloat(text), 0)]
    /\ Handled("RelaxationTimeChange")
    /\ UNCHANGED <<axisRanges, isLogScale, energyUnit, he3Data,
                   neutronData, effects, hung>>

RelaxationTimeChange(text) ==
    /\ UserMayAct
    /\ tempParams' = [tempParams EXCEPT
                        !.relaxationTimeConstant = OrElse(parseFloat(text), 0)]
    /\ Handled("RelaxationTimeChange")
    /\ UNCHANGED <<params, axisRanges, isLogScale, energyUnit, he3Data,
                   neutronData, effects, hung>>

He3GasThicknessChange(text) ==
    /\ UserMayAct
    /\ tempParams' = [tempParams EXCEPT
                        !.neutronParams.gasThickness = OrElse(parseFloat(text), 0)]
    /\ Handled("He3GasThicknessChange")
    /\ UNCHANGED <<params, axisRanges, isLogScale, energyUnit, he3Data,
                   neutronData, effects, hung>>

\* 81.81 / (val * val) for the two-decimal number val / Unit, val > 0.
EnergyOfWavelength(val) == Rat(8181 * Unit, val * val)

\* A conversion without the guard: 81.81 / (val * val) whatever val is, which
\* is Infinity for val = 0.
EnergyOrWavelengthChange_Unguarded(text) ==
    /\ UserMayAct
    /\ LET val    == OrElse(parseFloat(text), 0)
           energy == IF energyUnit = "meV" THEN RatOf(val)
                     ELSE IF val # 0 THEN EnergyOfWavelength(val) ELSE <<1, 0>>
       IN  tempParams' = [tempParams EXCEPT !.neutronParams.energy = energy]
    /\ Handled("EnergyOrWavelengthChange")
    /\ UNCHANGED <<params, axisRanges, isLogScale, energyUnit, he3Data,
                   neutronData, effects, hung>>

EnergyOrWavelengthChange(text) ==
    /\ UserMayAct
    /\ LET val    == OrElse(parseFloat(text), 0)
           energy == IF energyUnit = "meV" THEN RatOf(val)
                     ELSE IF val > 0 THEN EnergyOfWavelength(val) ELSE RatOf(0)
       IN  tempParams' = [tempParams EXCEPT !.neutronParams.energy = energy]
    /\ Handled("EnergyOrWavelengthChange")
    /\ UNCHANGED <<params, axisRanges, isLogScale, energyUnit, he3Data,
                   neutronData, effects, hung>>

\* The JavaScript Infinity, as a value next to Num(v) and NaN.
Infinity == <<1, 0>>

RECURSIVE ISqrtIn(_, _, _)
ISqrtIn(m, lo, hi) ==
    IF lo = hi THEN lo
    ELSE LET mid == (lo + hi + 1) \div 2
         IN  IF mid * mid <= m THEN ISqrtIn(m, mid, hi) ELSE ISqrtIn(m, lo, mid - 1)

\* floor(sqrt(m))
ISqrt(m) == ISqrtIn(m, 0, 2^15)

\* (n / d).toFixed(1) for n / d >= 0, in tenths.  When n / d lies midway
\* between two tenths the digit printed depends on the last bit of the double,
\* which a fraction does not tell: both tenths are possible.
ToFixed1(n, d) ==
    LET k == (10 * n) \div d
        r == (10 * n) % d
    IN  IF 2 * r < d THEN {k} ELSE IF 2 * r > d THEN {k + 1} ELSE {k, k + 1}

\* Math.sqrt(n / d).toFixed(1) for n / d > 0, in tenths.
SqrtToFixed1(n, d) ==
    LET k == ISqrt((Unit * n) \div d)
    IN  IF 4 * Unit * n < (2 * k + 1) * (2 * k + 1) * d THEN {k}
        ELSE IF 4 * Unit * n > (2 * k + 1) * (2 * k + 1) * d THEN {k + 1}
        ELSE {k, k + 1}

\* 81.81 / (n / d) as a fraction <<8181 * d, Unit * n>> in lowest terms.
WavelengthSquared(n, d) ==
    LET g1 == GCD(8181, n)
        g2 == GCD(d, Unit)
    IN  << (8181 \div g1) * (d \div g2), (Unit \div g2) * (n \div g1) >>

\* The value attribute of the "Energy or Wavelength" input: the draft energy
\* to one decimal in meV, or the wavelength sqrt(81.81 / energy) to one decimal.
\* The values a render can show, as two-decimal numbers.
EnergyInputValue(draft, unit) ==
    LET e == draft.neutronParams.energy
    IN  IF unit = "meV"
        THEN IF e[1] >= 0 THEN { Num(10 * k) : k \in ToFixed1(e[1], e[2]) }
                          ELSE { Num(0 - 10 * k) : k \in ToFixed1(0 - e[1], e[2]) }
        ELSE IF e[1] = 0 THEN { Infinity }
        ELSE IF e[1] < 0 THEN { NaN }
        ELSE LET q == WavelengthSquared(e[1], e[2])
             IN  { Num(10 * k) : k \in SqrtToFixed1(q[1], q[2]) }

EnergyUnitChange(unit) ==
    /\ UserMayAct
    /\ unit # energyUnit
    /\ energyUnit' = unit
    /\ Handled("EnergyUnitChange")
    /\ UNCHANGED <<params, tempParams, axisRanges, isLogScale, he3Data,
                   neutronData, effects, hung>>

NeutronHe3PolarizationChange(text) ==
    /\ UserMayAct
    /\ LET value == IF text = <<>> THEN Num(0) ELSE parseFloat(text)
       IN  tempParams' = [tempParams EXCEPT !.neutronParams.he3Polarization =
                              IF value = NaN THEN 0 ELSE value[1]]
    /\ Handled("NeutronHe3PolarizationChange")
    /\ UNCHANGED <<params, axisRanges, isLogScale, energyUnit, he3Data,
                   neutronData, effects, hung>>

NeutronGasThicknessChange(text) ==
    /\ UserMayAct
    /\ LET value == IF text = <<>> THEN Num(0) ELSE parseFloat(text)
       IN  tempParams' = [tempParams EXCEPT !.neutronParams.gasThickness =
                              IF value = NaN THEN 0 ELSE value[1]]
    /\ Handled("NeutronGasThicknessChange")
    /\ UNCHANGED <<params, axisRanges, isLogScale, energyUnit, he3Data,
                   neutronData, effects, hung>>

\* ------------------------------------------------- render and its effects
\* Dependency lists of the two effects.  The memoised calculateHe3Polarization
\* changes identity with the He-3 X bounds, calculateNeutronProperties with the
\* Neutron X bounds and the scale flag; params changes identity with every
\* setParams.
He3CallbackChanged(old, new) ==
    old.he3.xMin # new.he3.xMin \/ old.he3.xMax # new.he3.xMax

NeutronCallbackChanged(old, new, oldLog, newLog) ==
    \/ old.neutron.xMin # new.neutron.xMin
    \/ old.neutron.xMax # new.neutron.xMax
    \/ oldLog # newLog

\* The first effect with calculateHe3Polarization missing from its dependencies.
FirstEffectDue_NoHe3Callback(paramsReplaced, old, new, oldLog, newLog) ==
    \/ NeutronCallbackChanged(old, new, oldLog, newLog)
    \/ paramsReplaced
    \/ old.he3.yMin # new.he3.yMin
    \/ old.he3.yMax # new.he3.yMax

FirstEffectDue(paramsReplaced, old, new, oldLog, newLog) ==
    \/ He3CallbackChanged(old, new)
    \/ NeutronCallbackChanged(old, new, oldLog, newLog)
    \/ paramsReplaced
    \/ old.he3.yMin # new.he3.yMin
    \/ old.he3.yMax # new.he3.yMax

SecondEffectDue(paramsReplaced, old, new, oldLog, newLog) ==
    \/ oldLog # newLog
    \/ NeutronCallbackChanged(old, new, oldLog, newLog)
    \/ paramsReplaced
    \/ old.neutron.yMin # new.neutron.yMin
    \/ old.neutron.yMax # new.neutron.yMax

\* The state updates a handler queued are applied together and the component
\* renders with them; a handler whose sweep never returns renders nothing.
Render(p, r, log, h, n, paramsReplaced, stuck) ==
    /\ hung' = stuck
    /\ IF stuck
       THEN UNCHANGED <<params, axisRanges, isLogScale, he3Data, neutronData, effects>>
       ELSE /\ params' = p
            /\ axisRanges' = r
            /\ isLogScale' = log
            /\ he3Data' = h
            /\ neutronData' = n
            /\ effects' = << FirstEffectDue(paramsReplaced, axisRanges, r, isLogScale, log),
                             SecondEffectDue(paramsReplaced, axisRanges, r, isLogScale, log) >>

\* The effects scheduled by a render run after it, with the values of that
\* render, before the next user event is handled.
RunEffects ==
    /\ ~hung
    /\ effects # <<FALSE, FALSE>>
    /\ LET stuck == \/ effects[1] /\ He3Hangs(axisRanges)
                    \/ NeutronHangs(axisRanges, isLogScale)
       IN  /\ hung' = stuck
           /\ IF stuck
              THEN UNCHANGED <<he3Data, neutronData, effects>>
              ELSE /\ he3Data' = IF effects[1]
                                 THEN calculateHe3Polarization(params, axisRanges)
                                 ELSE he3Data
                   /\ neutronData' = calculateNeutronProperties(params, axisRanges, isLogScale)
                   /\ effects' = <<FALSE, FALSE>>
    /\ lastOp' = "RunEffects"
    /\ UNCHANGED <<params, tempParams, axisRanges, isLogScale, energyUnit, nOps, sw, plot,
                   activeTab>>

\* ------------------------------------------------------------ axis ranges
\* An edit that wrote the field into the ranges of the first render, losing
\* the edits made since.
handleAxisRangeChange_Stale(graph, field, value) ==
    /\ UserMayAct
    /\ value # axisRanges[graph][field]
    /\ Render(params,
              [InitialAxisRanges EXCEPT ![graph][field] = value],
              isLogScale,
              calculateHe3Polarization(params, axisRanges),
              calculateNeutronProperties(params, axisRanges, isLogScale),
              FALSE,
              He3Hangs(axisRanges) \/ NeutronHangs(axisRanges, isLogScale))
    /\ Handled("handleAxisRangeChange")
    /\ UNCHANGED <<tempParams, energyUnit>>

handleAxisRangeChange(graph, field, value) ==
    /\ UserMayAct
    /\ value # axisRanges[graph][field]
    /\ Render(params,
              [axisRanges EXCEPT ![graph][field] = value],
              isLogScale,
              calculateHe3Polarization(params, axisRanges),
              calculateNeutronProperties(params, axisRanges, isLogScale),
              FALSE,
              He3Hangs(axisRanges) \/ NeutronHangs(axisRanges, isLogScale))
    /\ Handled("handleAxisRangeChange")
    /\ UNCHANGED <<tempParams, energyUnit>>

\* ----------------------------------------------------------------- commits
\* The He-3 commit of the earlier revision, which left neutronParams alone.
He3SetParameters_He3Only ==
    /\ UserMayAct
    /\ LET newParams == [params EXCEPT
                           !.initialPolarization = tempParams.initialPolarization,
                           !.relaxationTimeConstant = tempParams.relaxationTimeConstant]
       IN  Render(newParams, axisRanges, isLogScale,
                  calculateHe3Polarization(newParams, axisRanges),
                  neutronData,
                  TRUE,
                  He3Hangs(axisRanges))
    /\ Handled("He3SetParameters")
    /\ UNCHANGED <<tempParams, energyUnit>>

\* A He-3 commit that consumed the draft: the edit buffer is back at the
\* defaults afterwards.
He3SetParameters_Consuming ==
    /\ UserMayAct
    /\ LET newParams == [params EXCEPT
                           !.initialPolarization = tempParams.initialPolarization,
                           !.relaxationTimeConstant = tempParams.relaxationTimeConstant,
                           !.neutronParams = tempParams.neutronParams]
       IN  Render(newParams, axisRanges, isLogScale,
                  calculateHe3Polarization(newParams, axisRanges),
                  neutronData,
                  TRUE,
                  He3Hangs(axisRanges))
    /\ Handled("He3SetParameters")
    /\ tempParams' = InitialParams
    /\ UNCHANGED energyUnit

He3SetParameters ==
    /\ UserMayAct
    /\ LET newParams == [params EXCEPT
                           !.initialPolarization = tempParams.initialPolarization,
                           !.relaxationTimeConstant = tempParams.relaxationTimeConstant,
                           !.neutronParams = tempParams.neutronParams]
       IN  Render(newParams, axisRanges, isLogScale,
                  calculateHe3Polarization(newParams, axisRanges),
                  neutronData,
                  TRUE,
                  He3Hangs(axisRanges))
    /\ Handled("He3SetParameters")
    /\ UNCHANGED <<tempParams, energyUnit>>

\* A Neutron commit that copied the whole draft.
NeutronSetParameters_WholeDraft ==
    /\ UserMayAct
    /\ LET newParams == [tempParams EXCEPT !.xAxisUnit = params.xAxisUnit]
       IN  Render(newParams, axisRanges, isLogScale,
                  he3Data,
                  calculateNeutronProperties(newParams, axisRanges, isLogScale),
                  TRUE,
                  NeutronHangs(axisRanges, isLogScale))
    /\ Handled("NeutronSetParameters")
    /\ UNCHANGED <<tempParams, energyUnit>>

\* A Neutron commit that took the X-axis unit from the draft as well.
NeutronSetParameters_DraftUnit ==
    /\ UserMayAct
    /\ LET newParams == [params EXCEPT !.neutronParams = tempParams.neutronParams,
                                       !.xAxisUnit = tempParams.xAxisUnit]
       IN  Render(newParams, axisRanges, isLogScale,
                  he3Data,
                  calculateNeutronProperties(newParams, axisRanges, isLogScale),
                  TRUE,
                  NeutronHangs(axisRanges, isLogScale))
    /\ Handled("NeutronSetParameters")
    /\ UNCHANGED <<tempParams, energyUnit>>

NeutronSetParameters ==
    /\ UserMayAct
    /\ LET newParams == [params EXCEPT !.neutronParams = tempParams.neutronParams]
       IN  Render(newParams, axisRanges, isLogScale,
                  he3Data,
                  calculateNeutronProperties(newParams, axisRanges, isLogScale),
                  TRUE,
                  NeutronHangs(axisRanges, isLogScale))
    /\ Handled("NeutronSetParameters")
    /\ UNCHANGED <<tempParams, energyUnit>>

\* ------------------------------------------------------------------ radios
XAxisUnitChange(unit) ==
    /\ UserMayAct
    /\ unit # params.xAxisUnit
    /\ LET newParams == [params EXCEPT !.xAxisUnit = unit]
       IN  Render(newParams, axisRanges, isLogScale,
                  he3Data,
                  calculateNeutronProperties(newParams, axisRanges, isLogScale),
                  TRUE,
                  NeutronHangs(axisRanges, isLogScale))
    /\ Handled("XAxisUnitChange")
    /\ UNCHANGED <<tempParams, energyUnit>>

XAxisScaleChange(log) ==
    /\ UserMayAct
    /\ log # isLogScale
    /\ Render(params, axisRanges, log,
              he3Data,
              calculateNeutronProperties(params, axisRanges, isLogScale),
              FALSE,
              NeutronHangs(axisRanges, isLogScale))
    /\ Handled("XAxisScaleChange")
    /\ UNCHANGED <<tempParams, energyUnit>>


\* ====================================================================
\* IEEE-754 binary64 arithmetic of the sweeps
\* ====================================================================
\* A non-negative double below 2^9 whose last bit weighs at least 2^-64 is
\* held exactly as the integer w[1] + w[2]*B + w[3]*B^2 + w[4]*B^3 in units of
\* 2^-64 (four limbs of 20 bits).  Every bound, step and sample of the linear
\* sweeps below lies in that range.  Results are rounded to 53 significant
\* bits, ties to even, as the hardware does.
LimbBase == 2^20

Carry(w) ==
    LET c1 == w[1] \div LimbBase
        s2 == w[2] + c1
        c2 == s2 \div LimbBase
        s3 == w[3] + c2
        c3 == s3 \div LimbBase
    IN  << w[1] % LimbBase, s2 % LimbBase, s3 % LimbBase, w[4] + c3 >>

FZero == <<0, 0, 0, 0>>

\* The double of a small non-negative integer: n * 2^64 = (16 n) * B^3.
FromInt(n) == <<0, 0, 0, 16 * n>>

RECURSIVE BitLen(_)
BitLen(n) == IF n = 0 THEN 0 ELSE 1 + BitLen(n \div 2)

\* Index of the leading bit (bit 0 weighs 2^-64); -1 for zero.
MsbIndex(w) ==
    IF w[4] > 0 THEN 60 + BitLen(w[4]) - 1
    ELSE IF w[3] > 0 THEN 40 + BitLen(w[3]) - 1
    ELSE IF w[2] > 0 THEN 20 + BitLen(w[2]) - 1
    ELSE BitLen(w[1]) - 1

\* Round an exact value (with a sticky flag for bits below 2^-64) to 53
\* significant bits, round-half-to-even.
Round53(w, sticky) ==
    LET d == MsbIndex(w) - 52
    IN  IF d <= 0 THEN w
        ELSE LET p    == 2^d
                 low  == w[1] % p
                 half == p \div 2
                 odd  == IF d < 20 THEN (w[1] \div p) % 2 = 1 ELSE w[2] % 2 = 1
                 up   == low > half \/ (low = half /\ (sticky \/ odd))
             IN  Carry(<< w[1] - low + (IF up THEN p ELSE 0), w[2], w[3], w[4] >>)

\* a + b
FAdd(a, b) ==
    Round53(Carry(<< a[1] + b[1], a[2] + b[2], a[3] + b[3], a[4] + b[4] >>), FALSE)

\* a - b for a >= b
FSub(a, b) ==
    LET d1 == a[1] - b[1]
        b1 == IF d1 < 0 THEN 1 ELSE 0
        d2 == a[2] - b[2] - b1
        b2 == IF d2 < 0 THEN 1 ELSE 0
        d3 == a[3] - b[3] - b2
        b3 == IF d3 < 0 THEN 1 ELSE 0
    IN  Round53(<< d1 + b1 * LimbBase, d2 + b2 * LimbBase, d3 + b3 * LimbBase,
                   a[4] - b[4] - b3 >>, FALSE)

\* w / n for a small positive integer n
FDiv(w, n) ==
    LET q4 == w[4] \div n
        c3 == (w[4] % n) * LimbBase + w[3]
        q3 == c3 \div n
        c2 == (c3 % n) * LimbBase + w[2]
        q2 == c2 \div n
        c1 == (c2 % n) * LimbBase + w[1]
        q1 == c1 \div n
    IN  Round53(<<q1, q2, q3, q4>>, c1 % n # 0)

\* a < b, a <= b
FLess(a, b) ==
    \/ a[4] < b[4]
    \/ a[4] = b[4] /\ a[3] < b[3]
    \/ a[4] = b[4] /\ a[3] = b[3] /\ a[2] < b[2]
    \/ a[4] = b[4] /\ a[3] = b[3] /\ a[2] = b[2] /\ a[1] < b[1]

FLessEq(a, b) == a = b \/ FLess(a, b)

\* The double nearest to the two-decimal number v / Unit, v >= 0: what
\* Number(text) yields for the text of that number.
ToDouble(v) ==
    IF v % Unit = 0 THEN FromInt(v \div Unit) ELSE FDiv(FromInt(v), Unit)

\* ====================================================================
\* Values of the formulas
\* ====================================================================
\* The formulas multiply, divide and apply sqrt, exp, tanh and cosh.  A value
\* is NaN, an infinity, zero, or a finite non-zero number held as the product
\* it was computed as: a sign, a monomial of its numeric factors and the
\* function applications in it, in the order they were multiplied.  Products
\* and quotients of finite numbers are taken in real arithmetic (a factor
\* divided out again cancels, no rounding, overflow or underflow); the special
\* values follow IEEE-754: x/0 = Infinity, 0/0 = Infinity * 0 = NaN,
\* exp(-Infinity) = 0, tanh(Infinity) = 1, and NaN propagates.  Zero carries
\* no sign.
\*
\* A monomial maps each factor to twice its exponent (sqrt halves it).
\* A factor is <<name>> for a named constant, the four limbs of a double, or
\* the tuple of a log-sweep sample.
MonoMul(a, b) ==
    LET e(x) == (IF x \in DOMAIN a THEN a[x] ELSE 0) + (IF x \in DOMAIN b THEN b[x] ELSE 0)
        keep == {x \in (DOMAIN a) \cup (DOMAIN b) : e(x) # 0}
    IN  [x \in keep |-> e(x)]

MonoInv(a) == [x \in DOMAIN a |-> 0 - a[x]]

MonoOne == [x \in {} |-> 0]

VNaN == [cls |-> "nan", neg |-> FALSE, mono |-> MonoOne, fns |-> <<>>]

VZero == [cls |-> "zero", neg |-> FALSE, mono |-> MonoOne, fns |-> <<>>]

VInf(neg) == [cls |-> "inf", neg |-> neg, mono |-> MonoOne, fns |-> <<>>]

VOne == [cls |-> "fin", neg |-> FALSE, mono |-> MonoOne, fns |-> <<>>]

\* The positive number that is the factor b itself.
VBase(b) == [cls |-> "fin", neg |-> FALSE, mono |-> [x \in {b} |-> 2], fns |-> <<>>]

\* A negation that left its operand as it is.
VNeg_Identity(a) == a

\* -a
VNeg(a) == IF a.cls \in {"nan", "zero"} THEN a ELSE [a EXCEPT !.neg = ~a.neg]

\* |a|
VAbs(a) == [a EXCEPT !.neg = FALSE]

\* a * b
VMul(a, b) ==
    IF a.cls = "nan" \/ b.cls = "nan" THEN VNaN
    ELSE IF {a.cls, b.cls} = {"inf", "zero"} THEN VNaN
    ELSE IF a.cls = "inf" \/ b.cls = "inf" THEN VInf(a.neg # b.neg)
    ELSE IF a.cls = "zero" \/ b.cls = "zero" THEN VZero
    ELSE [cls |-> "fin", neg |-> (a.neg # b.neg),
          mono |-> MonoMul(a.mono, b.mono), fns |-> a.fns \o b.fns]

\* A division that yielded 0 where the divisor is 0.
VDiv_Guarded(a, b) ==
    IF a.cls = "nan" \/ b.cls = "nan" THEN VNaN
    ELSE IF b.cls = "zero" THEN VZero
    ELSE IF a.cls = b.cls /\ a.cls = "inf" THEN VNaN
    ELSE IF b.cls = "inf" THEN VZero
    ELSE IF a.cls = "zero" THEN VZero
    ELSE IF a.cls = "inf" THEN VInf(a.neg # b.neg)
    ELSE [cls |-> "fin", neg |-> (a.neg # b.neg),
          mono |-> MonoMul(a.mono, MonoInv(b.mono)), fns |-> a.fns]

\* a / b
VDiv(a, b) ==
    IF a.cls = "nan" \/ b.cls = "nan" THEN VNaN
    ELSE IF a.cls = b.cls /\ a.cls \in {"inf", "zero"} THEN VNaN
    ELSE IF b.cls = "zero" THEN VInf(a.neg)
    ELSE IF b.cls = "inf" THEN VZero
    ELSE IF a.cls = "zero" THEN VZero
    ELSE IF a.cls = "inf" THEN VInf(a.neg # b.neg)
    ELSE [cls |-> "fin", neg |-> (a.neg # b.neg),
          mono |-> MonoMul(a.mono, MonoInv(b.mono)),
          fns |-> IF b.fns = <<>> THEN a.fns
                  ELSE a.fns \o << [f |-> "1/", arg |-> [b EXCEPT !.neg = FALSE,
                                                                  !.mono = MonoOne]] >>]

\* Math.sqrt(a)
VSqrt(a) ==
    IF a.cls = "nan" \/ (a.neg /\ a.cls # "zero") THEN VNaN
    ELSE IF a.cls \in {"zero", "inf"} THEN a
    ELSE IF a.fns = <<>> /\ \A x \in DOMAIN a.mono : a.mono[x] % 2 = 0
         THEN [a EXCEPT !.mono = [x \in DOMAIN a.mono |-> a.mono[x] \div 2]]
         ELSE [cls |-> "fin", neg |-> FALSE, mono |-> MonoOne,
               fns |-> << [f |-> "sqrt", arg |-> a] >>]

\* Math.exp(a)
VExp(a) ==
    IF a.cls = "nan" THEN VNaN
    ELSE IF a.cls = "zero" THEN VOne
    ELSE IF a.cls = "inf" THEN (IF a.neg THEN VZero ELSE VInf(FALSE))
    ELSE [cls |-> "fin", neg |-> FALSE, mono |-> MonoOne,
          fns |-> << [f |-> "exp", arg |-> a] >>]

\* Math.tanh(a), an odd function
VTanh(a) ==
    IF a.cls = "nan" THEN VNaN
    ELSE IF a.cls = "zero" THEN VZero
    ELSE IF a.cls = "inf" THEN (IF a.neg THEN VNeg(VOne) ELSE VOne)
    ELSE [cls |-> "fin", neg |-> a.neg, mono |-> MonoOne,
          fns |-> << [f |-> "tanh", arg |-> VAbs(a)] >>]

\* Math.cosh(a), an even function
VCosh(a) ==
    IF a.cls = "nan" THEN VNaN
    ELSE IF a.cls = "zero" THEN VOne
    ELSE IF a.cls = "inf" THEN VInf(FALSE)
    ELSE [cls |-> "fin", neg |-> FALSE, mono |-> MonoOne,
          fns |-> << [f |-> "cosh", arg |-> VAbs(a)] >>]

\* The value of an integer, of a fraction <<n, d>>, of a two-decimal number
\* v / Unit, of a double held in limbs, and of a log-sweep sample.
VInt(k) ==
    IF k = 0 THEN VZero
    ELSE IF k = 1 THEN VOne
    ELSE IF k = 0 - 1 THEN VNeg(VOne)
    ELSE IF k < 0 THEN VNeg(VBase(FromInt(0 - k)))
    ELSE VBase(FromInt(k))

VRat(q) == VDiv(VInt(q[1]), VInt(q[2]))

VNum(v) == IF v >= 0 THEN VRat(RatOf(v)) ELSE VNeg(VRat(RatOf(0 - v)))

VDbl(w) ==
    IF w = FZero THEN VZero ELSE IF w = FromInt(1) THEN VOne ELSE VBase(w)

VLog(sample) ==
    IF sample.nan THEN VNaN
    ELSE VBase(<<"log", sample.lo, sample.hi, sample.i, 0>>)

\* ------------------------------------------------------- formula engine
\* PHYSICAL_CONSTANTS.sigma0 and .barn_to_cm2, and the number density n.
\* A cross-section a thousand times as large.
sigma0_Thousandfold == VInt(5333000)

sigma0 == VInt(5333)

barn_to_cm2 == VBase(<<"1e-24">>)

NumberDensity == VBase(<<"2.687e19">>)

\* The literal 1.8 of sigma0 * (wavelength / 1.8).
ReferenceWavelength == VDbl(ToDouble(180))

calculateCommonFactors(wavelength) ==
    LET n     == NumberDensity
        sigma == VMul(sigma0, VDiv(wavelength, ReferenceWavelength))
    IN  VMul(VMul(n, sigma), barn_to_cm2)

\* A neutron polarization that left the He-3 polarization out of the product.
calculateNeutronPolarization_Unpolarized(wavelength, he3Polarization, gasThickness) ==
    LET commonFactor == calculateCommonFactors(wavelength)
        neutronPolarization == VTanh(VMul(commonFactor, gasThickness))
    IN  VMul(neutronPolarization, VInt(100))

calculateNeutronPolarization(wavelength, he3Polarization, gasThickness) ==
    LET commonFactor == calculateCommonFactors(wavelength)
        neutronPolarization ==
            VTanh(VMul(VMul(commonFactor, he3Polarization), gasThickness))
    IN  VMul(neutronPolarization, VInt(100))

calculateNeutronTransmission(wavelength, he3Polarization, gasThickness) ==
    LET commonFactor == calculateCommonFactors(wavelength)
        factor == VMul(commonFactor, gasThickness)
        neutronTransmission ==
            VMul(VExp(VNeg(factor)), VCosh(VMul(factor, he3Polarization)))
    IN  VMul(neutronTransmission, VInt(100))

\* calculatePolarization of the stand-alone calculator: time in minutes,
\* relaxation time in hours.
calculatePolarization(time, calcParams) ==
    LET timeInHours == VDiv(time, VInt(60))
    IN  VMul(VNum(calcParams.initialPolarization),
             VExp(VDiv(VNeg(timeInHours), VNum(calcParams.relaxationTimeConstant))))

\* A figure of merit that took the polarization to the first power.
calculateFigureOfMerit_Unsquared(wavelength, he3Polarization, gasThickness) ==
    LET commonFactor == calculateCommonFactors(wavelength)
        factor == VMul(commonFactor, gasThickness)
        neutronPolarization ==
            VTanh(VMul(VMul(commonFactor, he3Polarization), gasThickness))
        neutronTransmission ==
            VMul(VExp(VNeg(factor)), VCosh(VMul(factor, he3Polarization)))
    IN  VMul(VMul(neutronPolarization, neutronTransmission), VInt(100))

calculateFigureOfMerit(wavelength, he3Polarization, gasThickness) ==
    LET commonFactor == calculateCommonFactors(wavelength)
        factor == VMul(commonFactor, gasThickness)
        neutronPolarization ==
            VTanh(VMul(VMul(commonFactor, he3Polarization), gasThickness))
        neutronTransmission ==
            VMul(VExp(VNeg(factor)), VCosh(VMul(factor, he3Polarization)))
        FigureOfMerit ==
            VMul(VMul(neutronPolarization, neutronPolarization), neutronTransmission)
    IN  VMul(FigureOfMerit, VInt(100))

\* ====================================================================
\* The sweeps, one loop iteration per step
\* ====================================================================
\* Array length at which a push fails (RangeError: Invalid array length, or the
\* heap is exhausted before).
MaxPoints == 250

\* he3: for (let time = xMin; time <= xMax; time += step)
He3Divisions == 100

\* numPoints of calculateNeutronProperties
numPoints == 200

\* Bound texts of the stand-alone sweeps.
SweepTexts == { <<>>, <<"1">>, <<"3">>, <<"1", "0", "0">> }

\* Bound texts a linear Neutron sweep is run with.
LinearTexts == SweepTexts \cup { <<"1", ".", "8">> }

LogTexts == { <<>>, <<"0", ".", "0", "5">>, <<"1">>, <<"5", "0">>, <<"-", "5">> }

\* Math.log10 and Math.pow(10, .) are taken in real arithmetic.  The sample
\* Math.pow(10, logMin + i * logStep), logMin = log10(lo), logStep =
\* (log10(hi) - logMin) / numPoints, is held as [nan, lo, hi, i]; it is NaN as
\* soon as one logarithm is (log10 of a negative number), otherwise it is the
\* positive real lo^(1 - i/numPoints) * hi^(i/numPoints).  lo and hi are
\* two-decimal numbers (units of 1 / Unit); neither is ever 0 (the floor keeps
\* lo >= 0.1, the fallback keeps hi # 0).
Log10IsNaN(v) == v < 0

LogSample(lo, hi, i) ==
    [ nan |-> Log10IsNaN(lo) \/ Log10IsNaN(hi), lo |-> lo, hi |-> hi, i |-> i ]

\* x < y for two samples of one log sweep (comparisons with NaN are false).
LogLess(x, y) ==
    /\ ~x.nan /\ ~y.nan
    /\ \/ x.lo < x.hi /\ x.i < y.i
       \/ x.lo > x.hi /\ x.i > y.i

\* E = 81.81 / x^2 and lambda = sqrt(81.81 / x) of the swept value.
EnergyFromWavelength(x) == VDiv(VNum(8181), VMul(x, x))

WavelengthFromEnergy(x) == VSqrt(VDiv(VNum(8181), x))

\* addDataPoint: the point pushed for the swept value x.
addDataPoint(x, currentParams) ==
    LET wavelength == IF currentParams.xAxisUnit = "wavelength"
                      THEN x ELSE WavelengthFromEnergy(x)
        energy == IF currentParams.xAxisUnit = "wavelength"
                  THEN EnergyFromWavelength(x) ELSE x
        he3Polarization == VDiv(VNum(currentParams.neutronParams.he3Polarization),
                                VInt(100))
        gasThickness == VNum(currentParams.neutronParams.gasThickness)
    IN  [ time                |-> VZero,
          wavelength          |-> wavelength,
          energy              |-> energy,
          he3Polarization     |-> VNum(currentParams.neutronParams.he3Polarization),
          neutronPolarization |->
              calculateNeutronPolarization(wavelength, he3Polarization, gasThickness),
          neutronTransmission |->
              calculateNeutronTransmission(wavelength, he3Polarization, gasThickness),
          figureOfMerit       |->
              calculateFigureOfMerit(wavelength, he3Polarization, gasThickness) ]

\* The point of a time sweep without companion curves: both neutron values 0.
He3Point_NoCompanions(time, currentParams) ==
    [ time                |-> time,
      wavelength          |-> VSqrt(VDiv(VNum(8181), VRat(currentParams.neutronParams.energy))),
      energy              |-> VRat(currentParams.neutronParams.energy),
      he3Polarization     |->
          VMul(VNum(currentParams.initialPolarization),
               VExp(VDiv(VNeg(time), VNum(currentParams.relaxationTimeConstant)))),
      neutronPolarization |-> VZero,
      neutronTransmission |-> VZero,
      figureOfMerit       |-> VZero ]

\* The point the time sweep pushes for the loop variable time.
He3Point(time, currentParams) ==
    LET gasThickness == VNum(currentParams.neutronParams.gasThickness)
        he3Polarization ==
            VMul(VNum(currentParams.initialPolarization),
                 VExp(VDiv(VNeg(time), VNum(currentParams.relaxationTimeConstant))))
        wavelength == VSqrt(VDiv(VNum(8181), VRat(currentParams.neutronParams.energy)))
        NeutronPolarization_decay ==
            VTanh(VMul(VDiv(VMul(calculateCommonFactors(wavelength), he3Polarization),
                            VInt(100)),
                       gasThickness))
        NeutronTransmission_decay ==
            VMul(VExp(VMul(VNeg(calculateCommonFactors(wavelength)), gasThickness)),
                 VCosh(VMul(VMul(VDiv(he3Polarization, VInt(100)), gasThickness),
                            calculateCommonFactors(wavelength))))
    IN  [ time                |-> time,
          wavelength          |-> wavelength,
          energy              |-> VRat(currentParams.neutronParams.energy),
          he3Polarization     |-> he3Polarization,
          neutronPolarization |-> VMul(NeutronPolarization_decay, VInt(100)),
          neutronTransmission |-> VMul(NeutronTransmission_decay, VInt(100)),
          figureOfMerit       |-> VZero ]

\* The state of a sweep in progress.  The points array is determined by the
\* values of the loop variable it was pushed for and by currentParams, which
\* does not change during the call: the state holds those (pushed), and
\* PointAt(k) is the k-th element of the array.
SweepRecord(pc, kind, currentParams, xMin, effectiveXMin, xMax, step, x, i, pushed, logArgs) ==
    [ pc |-> pc, kind |-> kind, currentParams |-> currentParams,
      unit |-> currentParams.xAxisUnit, xMin |-> xMin,
      effectiveXMin |-> effectiveXMin, xMax |-> xMax, step |-> step, x |-> x,
      i |-> i, pushed |-> pushed, logArgs |-> logArgs ]

SweepIdle == SweepRecord("idle", "none", InitialParams, 0, 0, 0, FZero, FZero, 0, <<>>, <<>>)

\* calculateHe3Polarization up to the loop: bounds, step, time = xMin.
He3SweepStart(minText, maxText, currentParams) ==
    /\ sw.pc = "idle"
    /\ LET xMin == OrElse(Number(minText), 0)
           xMax == OrElse(Number(maxText), 24 * Unit)
           step == IF xMin <= xMax
                   THEN FDiv(FSub(ToDouble(xMax), ToDouble(xMin)), He3Divisions)
                   ELSE FZero
       IN  sw' = SweepRecord("loop", "he3", currentParams, xMin, xMin, xMax, step,
                             ToDouble(xMin), 0, <<>>, <<>>)
    /\ UNCHANGED uiVars

\* One test of the loop condition, then the body and time += step, or the return.
\* With reversed bounds the step is negative and the first test already fails.
\* sw.i counts the iterations of the body.
He3SweepStep ==
    /\ sw.pc = "loop" /\ sw.kind = "he3"
    /\ IF sw.xMin <= sw.xMax /\ FLessEq(sw.x, ToDouble(sw.xMax))
       THEN IF Len(sw.pushed) >= MaxPoints
            THEN sw' = [sw EXCEPT !.pc = "crashed"]
            ELSE sw' = [sw EXCEPT !.pushed = Append(@, VDbl(sw.x)),
                                  !.x = FAdd(sw.x, sw.step),
                                  !.i = sw.i + 1]
       ELSE sw' = [sw EXCEPT !.pc = "done"]
    /\ UNCHANGED uiVars

\* calculateNeutronProperties up to the loop.
NeutronSweepStart(minText, maxText, log, currentParams) ==
    /\ sw.pc = "idle"
    /\ LET xMin == OrElse(Number(minText), 0)
           xMax == OrElse(Number(maxText), 10 * Unit)
           effectiveXMin == IF log THEN LogFloor(xMin) ELSE xMin
       IN  IF log
           THEN sw' = SweepRecord("loop", "log", currentParams, xMin, effectiveXMin, xMax,
                                  FZero, FZero, 0, <<>>, <<effectiveXMin, xMax>>)
           ELSE /\ minText \in LinearTexts /\ maxText \in LinearTexts
                /\ sw' = SweepRecord("loop", "linear", currentParams, xMin, effectiveXMin, xMax,
                                     IF effectiveXMin <= xMax
                                     THEN FDiv(FSub(ToDouble(xMax), ToDouble(effectiveXMin)),
                                               numPoints)
                                     ELSE FZero,
                                     ToDouble(effectiveXMin), 0, <<>>, <<>>)
    /\ UNCHANGED uiVars

\* for (let x = effectiveXMin; x <= xMax; x += step) addDataPoint(x, ...)
NeutronLinearStep ==
    /\ sw.pc = "loop" /\ sw.kind = "linear"
    /\ IF sw.effectiveXMin <= sw.xMax /\ FLessEq(sw.x, ToDouble(sw.xMax))
       THEN IF Len(sw.pushed) >= MaxPoints
            THEN sw' = [sw EXCEPT !.pc = "crashed"]
            ELSE sw' = [sw EXCEPT !.pushed = Append(@, VDbl(sw.x)),
                                  !.x = FAdd(sw.x, sw.step),
                                  !.i = sw.i + 1]
       ELSE sw' = [sw EXCEPT !.pc = "done"]
    /\ UNCHANGED uiVars

\* for (let i = 0; i <= numPoints; i++) addDataPoint(10^(logMin + i*logStep), ...)
NeutronLogStep ==
    /\ sw.pc = "loop" /\ sw.kind = "log"
    /\ IF sw.i <= numPoints
       THEN IF Len(sw.pushed) >= MaxPoints
            THEN sw' = [sw EXCEPT !.pc = "crashed"]
            ELSE sw' = [sw EXCEPT
                          !.pushed = Append(@, VLog(LogSample(sw.logArgs[1],
                                                                sw.logArgs[2], sw.i))),
                          !.i = sw.i + 1]
       ELSE sw' = [sw EXCEPT !.pc = "done"]
    /\ UNCHANGED uiVars

\* Points computed from the draft instead of the argument of the call.
PointAt_Draft(k) ==
    IF sw.kind = "he3" THEN He3Point(sw.pushed[k], tempParams)
    ELSE addDataPoint(sw.pushed[k], [tempParams EXCEPT !.xAxisUnit = sw.unit])

\* The k-th element of the points array.
PointAt(k) ==
    IF sw.kind = "he3" THEN He3Point(sw.pushed[k], sw.currentParams)
    ELSE addDataPoint(sw.pushed[k], sw.currentParams)

\* The sweeps of the committed default parameters, in either X-axis unit.
NextSweep ==
    \/ \E minText \in SweepTexts, maxText \in SweepTexts :
          He3SweepStart(minText, maxText, params)
    \/ He3SweepStep
    \/ \E minText \in SweepTexts \cup LogTexts, maxText \in SweepTexts \cup LogTexts,
          log \in BOOLEAN, unit \in {"wavelength", "energy"} :
          NeutronSweepStart(minText, maxText, log, [params EXCEPT !.xAxisUnit = unit])
    \/ NeutronLinearStep
    \/ NeutronLogStep

\* ====================================================================
\* The measured data list and its CSV file
\* ====================================================================
\* Largest number of points added by hand.
MaxData == 2

\* String(v) of the number v / Unit: sign, integer digits, and the fraction
\* without trailing zeros.
RECURSIVE IntDigits(_)
IntDigits(n) ==
    IF n < 10 THEN << DigitChars[n + 1] >>
    ELSE IntDigits(n \div 10) \o << DigitChars[(n % 10) + 1] >>

\* A conversion that kept one decimal only.
NumberToString_OneDecimal(v) ==
    LET a == IF v < 0 THEN 0 - v ELSE v
    IN  (IF v < 0 THEN <<"-">> ELSE <<>>) \o IntDigits(a \div Unit)
        \o (IF (a % Unit) \div 10 = 0 THEN <<>>
            ELSE <<".", DigitChars[((a % Unit) \div 10) + 1]>>)

NumberToString(v) ==
    LET a  == IF v < 0 THEN 0 - v ELSE v
        fp == a % Unit
    IN  (IF v < 0 THEN <<"-">> ELSE <<>>) \o IntDigits(a \div Unit)
        \o (IF fp = 0 THEN <<>>
            ELSE IF fp % 10 = 0 THEN <<".", DigitChars[(fp \div 10) + 1]>>
            ELSE <<".", DigitChars[(fp \div 10) + 1], DigitChars[(fp % 10) + 1]>>)

\* text.split(sep): the pieces between the separators, at least one.
RECURSIVE Split(_, _)
Split(text, sep) ==
    LET at == {i \in 1..Len(text) : text[i] = sep}
    IN  IF at = {} THEN << text >>
        ELSE LET i == CHOOSE j \in at : \A k \in at : j <= k
             IN  << SubSeq(text, 1, i - 1) >> \o Split(SubSeq(text, i + 1, Len(text)), sep)

\* pieces.join(sep)
RECURSIVE Join(_, _)
Join(pieces, sep) ==
    IF pieces = <<>> THEN <<>>
    ELSE IF Len(pieces) = 1 THEN pieces[1]
    ELSE pieces[1] \o << sep >> \o Join(Tail(pieces), sep)

\* line.trim()
RECURSIVE Trim(_)
Trim(line) ==
    IF line = <<>> THEN line
    ELSE IF Head(line) = " " THEN Trim(Tail(line))
    ELSE IF line[Len(line)] = " " THEN Trim(SubSeq(line, 1, Len(line) - 1))
    ELSE line

\* A list that kept the order of arrival.
InsertByTime_Unsorted(sorted, point) == Append(sorted, point)

\* [...].sort((a, b) => a.time - b.time): a stable sort by time.
InsertByTime(sorted, point) ==
    LET before == {i \in 1..Len(sorted) : sorted[i].time <= point.time}
        n == IF before = {} THEN 0 ELSE CHOOSE i \in before : \A j \in before : j <= i
    IN  SubSeq(sorted, 1, n) \o << point >> \o SubSeq(sorted, n + 1, Len(sorted))

RECURSIVE SortFrom(_, _)
SortFrom(sorted, rest) ==
    IF rest = <<>> THEN sorted
    ELSE SortFrom(InsertByTime(sorted, Head(rest)), Tail(rest))

SortByTime(points) == SortFrom(<<>>, points)

CsvHeader == <<"T", "i", "m", "e", " ", "(", "m", "i", "n", ")", ",", "P", "o", "l", "a", "r", "i", "z", "a", "t", "i", "o", "n", " ", "(", "%", ")">>

\* csvContent of handleExportData
csvContent(data) ==
    CsvHeader \o << "\n" >>
    \o Join([i \in 1..Len(data) |->
                NumberToString(data[i].time) \o << "," >>
                \o NumberToString(data[i].polarization)], "\n")

\* The points of one line of the file: none for an empty line, for a line
\* without a second field and for a field that is no number.
PointsOfLine(rawLine) ==
    LET line   == Trim(rawLine)
        fields == Split(line, ",")
        time   == Number(fields[1])
        polarization == IF Len(fields) >= 2 THEN Number(fields[2]) ELSE NaN
    IN  IF line = <<>> \/ time = NaN \/ polarization = NaN THEN <<>>
        ELSE << [time |-> time[1], polarization |-> polarization[1]] >>

RECURSIVE PointsOfLines(_)
PointsOfLines(lines) ==
    IF lines = <<>> THEN <<>> ELSE PointsOfLine(Head(lines)) \o PointsOfLines(Tail(lines))

\* newData of reader.onload, sorted
ImportedData(text) == SortByTime(PointsOfLines(Tail(Split(text, "\n"))))

NoFile == [exists |-> FALSE, text |-> <<>>]

InitialPlot ==
    [ data |-> <<>>, timeInput |-> <<>>, polarizationInput |-> <<>>,
      file |-> NoFile, op |-> "mount" ]

componentVars == <<params, tempParams, axisRanges, isLogScale, energyUnit,
                   he3Data, neutronData, effects, hung, lastOp, nOps, sw, activeTab>>

TimeInputChange(value) ==
    /\ activeTab = "plot"
    /\ plot' = [plot EXCEPT !.timeInput = value, !.op = "input"]
    /\ UNCHANGED componentVars

PolarizationInputChange(value) ==
    /\ activeTab = "plot"
    /\ plot' = [plot EXCEPT !.polarizationInput = value, !.op = "input"]
    /\ UNCHANGED componentVars

\* An add that cleared both inputs whether or not it accepted them.
handleAddData_AlwaysClears ==
    /\ activeTab = "plot"
    /\ Len(plot.data) < MaxData
    /\ LET time == parseFloat(plot.timeInput)
           polarization == parseFloat(plot.polarizationInput)
       IN  IF time # NaN /\ polarization # NaN
           THEN plot' = [plot EXCEPT
                           !.data = SortByTime(Append(@, [time |-> time[1],
                                                          polarization |-> polarization[1]])),
                           !.timeInput = <<>>,
                           !.polarizationInput = <<>>,
                           !.op = "add"]
           ELSE plot' = [plot EXCEPT !.timeInput = <<>>, !.polarizationInput = <<>>,
                                     !.op = "add"]
    /\ UNCHANGED componentVars

handleAddData ==
    /\ activeTab = "plot"
    /\ Len(plot.data) < MaxData
    /\ LET time == parseFloat(plot.timeInput)
           polarization == parseFloat(plot.polarizationInput)
       IN  IF time # NaN /\ polarization # NaN
           THEN plot' = [plot EXCEPT
                           !.data = SortByTime(Append(@, [time |-> time[1],
                                                          polarization |-> polarization[1]])),
                           !.timeInput = <<>>,
                           !.polarizationInput = <<>>,
                           !.op = "add"]
           ELSE plot' = [plot EXCEPT !.op = "add"]
    /\ UNCHANGED componentVars

handleClearData ==
    /\ activeTab = "plot"
    /\ plot' = [plot EXCEPT !.data = <<>>, !.op = "clear"]
    /\ UNCHANGED componentVars

\* The download of handleExportData is the file a later import can choose.
handleExportData ==
    /\ activeTab = "plot"
    /\ plot' = [plot EXCEPT !.file = [exists |-> TRUE, text |-> csvContent(plot.data)],
                            !.op = "export"]
    /\ UNCHANGED componentVars

handleImportData(file) ==
    /\ activeTab = "plot"
    /\ IF ~file.exists THEN plot' = [plot EXCEPT !.op = "import"]
       ELSE plot' = [plot EXCEPT !.data = ImportedData(file.text), !.op = "import"]
    /\ UNCHANGED componentVars

\* Characters typed into the two inputs, and files written by hand: one with
\* unsorted lines, an empty line and a final newline, one with lines that
\* are skipped.
TimeTexts == { <<>>, <<"3">>, <<"-", "2", ".", "5">>, <<"a">> }

PolarizationTexts == { <<>>, <<"0", ".", "0", "5">>, <<"7", "0">> }

ImportFiles ==
    { <<"t", ",", "p", "\n", "3", ",", "7", "0", "\n", "\n", "-", "2", ".", "5", ",", "0", ".", "0", "5", " ", "\n">>,
      <<"t", ",", "p", "\n", "a", ",", "1", "\n", "3", "\n", "3", ",", "0", ".", "0", "5">> }

\* The files an import can choose: none (dialog cancelled), the last
\* download, a hand-written one.
ImportChoices ==
    {NoFile, plot.file} \cup {[exists |-> TRUE, text |-> t] : t \in ImportFiles}

NextCsv ==
    \/ \E typed \in TimeTexts : TimeInputChange(NumberInputValue(typed))
    \/ \E typed \in PolarizationTexts : PolarizationInputChange(NumberInputValue(typed))
    \/ handleAddData
    \/ handleClearData
    \/ handleExportData
    \/ \E file \in ImportChoices : handleImportData(file)

\* ====================================================================
\* The tabs
\* ====================================================================
Tabs == {"plot", "functions"}

\* The state a component has when nothing is mounted and at its next mount:
\* the initial values of its useState hooks.  The last download is a file,
\* not state of the component.
Unmounted ==
    /\ params' = InitialParams
    /\ tempParams' = InitialParams
    /\ axisRanges' = InitialAxisRanges
    /\ isLogScale' = FALSE
    /\ energyUnit' = "meV"
    /\ he3Data' = <<>>
    /\ neutronData' = <<>>
    /\ plot' = [InitialPlot EXCEPT !.file = plot.file]

\* Tabs that hid the plot component instead of unmounting it.
SetActiveTab_KeepAlive(tab) ==
    /\ ~hung /\ effects = <<FALSE, FALSE>>
    /\ tab # activeTab
    /\ activeTab' = tab
    /\ lastOp' = IF tab = "plot" THEN "mount" ELSE "unmount"
    /\ UNCHANGED <<params, tempParams, axisRanges, isLogScale, energyUnit, he3Data,
                   neutronData, plot, effects, hung, nOps, sw>>

\* onClick of a tab button.  The content is activeTab === "plot" ?
\* <PolarizationPlot /> : <FunctionDescription />, so leaving "plot" unmounts
\* the plot component and entering it mounts a new one, whose effects run
\* after its first render.  A click on the tab already shown changes nothing.
SetActiveTab(tab) ==
    /\ ~hung /\ effects = <<FALSE, FALSE>>
    /\ tab # activeTab
    /\ activeTab' = tab
    /\ Unmounted
    /\ effects' = IF tab = "plot" THEN <<TRUE, TRUE>> ELSE <<FALSE, FALSE>>
    /\ lastOp' = IF tab = "plot" THEN "mount" ELSE "unmount"
    /\ UNCHANGED <<hung, nOps, sw>>

\* ------------------------------------------------------ the component
Init ==
    /\ params = InitialParams
    /\ tempParams = InitialParams
    /\ axisRanges = InitialAxisRanges
    /\ isLogScale = FALSE
    /\ energyUnit = "meV"
    /\ he3Data = <<>>
    /\ neutronData = <<>>
    /\ effects = <<TRUE, TRUE>>
    /\ hung = FALSE
    /\ lastOp = "mount"
    /\ nOps = 0
    /\ sw = SweepIdle
    /\ plot = InitialPlot
    /\ activeTab = "plot"

Next ==
    \/ \E text \in DraftTexts : InitialPolarizationChange(text)
    \/ \E text \in DraftTexts : RelaxationTimeChange(text)
    \/ \E text \in DraftTexts : He3GasThicknessChange(text)
    \/ \E text \in DraftTexts : EnergyOrWavelengthChange(text)
    \/ \E unit \in {"meV", "A"} : EnergyUnitChange(unit)
    \/ \E text \in DraftTexts : NeutronHe3PolarizationChange(text)
    \/ \E text \in DraftTexts : NeutronGasThicknessChange(text)
    \/ \E graph \in Graphs, field \in Fields, value \in AxisTexts :
          handleAxisRangeChange(graph, field, value)
    \/ He3SetParameters
    \/ NeutronSetParameters
    \/ \E unit \in {"wavelength", "energy"} : XAxisUnitChange(unit)
    \/ \E log \in BOOLEAN : XAxisScaleChange(log)
    \/ RunEffects

Spec == Init /\ [][Next]_vars

\* The sweeps run alone, from the bounds texts of SweepTexts and LogTexts.
SpecSweep == Init /\ [][NextSweep]_vars

\* The sweeps called with other parameter sets than the defaults, degenerate
\* ones (relaxation time 0, energy 0, He-3 polarization 0) among them, while
\* the draft keeps the defaults.
SeriesTexts == { <<>>, <<"3">> }

He3SeriesParams ==
    { [InitialParams EXCEPT !.relaxationTimeConstant = t,
                            !.neutronParams.energy = e] :
        t \in {0, 50 * Unit, 100 * Unit}, e \in {RatOf(0), RatOf(1470)} }

NeutronSeriesParams ==
    { [InitialParams EXCEPT !.xAxisUnit = u,
                            !.neutronParams.he3Polarization = h,
                            !.neutronParams.gasThickness = d] :
        u \in {"wavelength", "energy"}, h \in {0, 70 * Unit}, d \in {0, 10 * Unit} }

NextSeries ==
    \/ \E minText \in SeriesTexts, maxText \in SeriesTexts, p \in He3SeriesParams :
          He3SweepStart(minText, maxText, p)
    \/ He3SweepStep
    \/ \E minText \in SeriesTexts \cup { <<"1", ".", "8">> },
          maxText \in SeriesTexts \cup { <<"-", "5">> },
          log \in BOOLEAN, p \in NeutronSeriesParams :
          NeutronSweepStart(minText, maxText, log, p)
    \/ NeutronLinearStep
    \/ NeutronLogStep

SpecSeries == Init /\ [][NextSeries]_vars

\* The draft inputs edited alone, with characters that are no number among
\* those typed, and the two commits.
TypedTexts ==
    { <<>>, <<"a">>, <<"5", "x">>, <<"-">>, <<"5", "0">>, <<"2", ".", "5">>,
      <<"2", ".", "5", "5">>, <<"-", "5">> }

NextDraft ==
    \/ \E typed \in TypedTexts : InitialPolarizationChange(NumberInputValue(typed))
    \/ \E typed \in TypedTexts : RelaxationTimeChange(NumberInputValue(typed))
    \/ \E typed \in TypedTexts : He3GasThicknessChange(NumberInputValue(typed))
    \/ \E typed \in TypedTexts : EnergyOrWavelengthChange(NumberInputValue(typed))
    \/ \E unit \in {"meV", "A"} : EnergyUnitChange(unit)
    \/ \E typed \in TypedTexts : NeutronHe3PolarizationChange(NumberInputValue(typed))
    \/ \E typed \in TypedTexts : NeutronGasThicknessChange(NumberInputValue(typed))
    \/ He3SetParameters
    \/ NeutronSetParameters
    \/ RunEffects

SpecDraft == Init /\ [][NextDraft]_vars

\* The X bounds edited alone, with empty, zero, non-numeric and negative
\* entries among the characters typed, and the scale radio.
BoundTexts == { <<>>, <<"0">>, <<"a">>, <<"-", "5">>, <<"5", "0">> }

NextAxis ==
    \/ \E graph \in Graphs, field \in {"xMin", "xMax"}, typed \in BoundTexts :
          handleAxisRangeChange(graph, field, NumberInputValue(typed))
    \/ \E log \in BOOLEAN : XAxisScaleChange(log)
    \/ RunEffects

SpecAxis == Init /\ [][NextAxis]_vars

\* The component used and the tab switched.
NextTabs ==
    \/ \E text \in DraftTexts : InitialPolarizationChange(text)
    \/ \E text \in DraftTexts : NeutronGasThicknessChange(text)
    \/ He3SetParameters
    \/ NeutronSetParameters
    \/ \E graph \in Graphs, field \in {"xMax"} :
          handleAxisRangeChange(graph, field, <<"5", "0">>)
    \/ \E unit \in {"wavelength", "energy"} : XAxisUnitChange(unit)
    \/ \E log \in BOOLEAN : XAxisScaleChange(log)
    \/ RunEffects
    \/ \E tab \in Tabs : SetActiveTab(tab)

SpecTabs == Init /\ [][NextTabs]_vars

\* The measured data list edited, exported and imported.
SpecCsv == Init /\ [][NextCsv]_vars

\* ------------------------------------------------------------------ claims
Commits == {"He3SetParameters", "NeutronSetParameters"}

Quiescent == ~hung /\ effects = <<FALSE, FALSE>>

\* C1 (as stated): every step that changes a field of the committed params is
\* one of the two "Set Parameters" commit actions.
C1_OnlyCommitsChangeParams ==
    [][params' # params => lastOp' \in Commits]_vars

\* C1 (amended): every step that changes the committed params is one of the two
\* "Set Parameters" commits or an X-axis unit selection, and a unit selection
\* changes no field other than xAxisUnit; no draft edit, axis-range edit or
\* scale selection changes params.
C1_ParamsChangeOnlyByCommitOrUnit ==
    [][params' # params =>
          \/ lastOp' \in Commits
          \/ /\ lastOp' = "XAxisUnitChange"
             /\ params' = [params EXCEPT !.xAxisUnit = params'.xAxisUnit]]_vars

C1_Witness ==
    /\ lastOp = "He3SetParameters"
    /\ params.initialPolarization # InitialParams.initialPolarization
    /\ tempParams.relaxationTimeConstant = params.relaxationTimeConstant

\* C2 (as stated): the He-3 "Set Parameters" action leaves the committed
\* neutronParams exactly as they were before the click.
C2_He3CommitKeepsNeutronParams ==
    [][lastOp' = "He3SetParameters" =>
          params'.neutronParams = params.neutronParams]_vars

\* C2 (amended): the He-3 "Set Parameters" action replaces the committed
\* initialPolarization, relaxationTimeConstant and the whole neutronParams
\* sub-object with the draft values and leaves xAxisUnit and the draft as they
\* were.
C2_He3CommitCopiesDraft ==
    [][lastOp' = "He3SetParameters" /\ ~hung' =>
          /\ params'.initialPolarization = tempParams.initialPolarization
          /\ params'.relaxationTimeConstant = tempParams.relaxationTimeConstant
          /\ params'.neutronParams = tempParams.neutronParams
          /\ params'.xAxisUnit = params.xAxisUnit
          /\ tempParams' = tempParams]_vars

C2_Witness ==
    /\ lastOp = "He3SetParameters"
    /\ params.neutronParams # InitialParams.neutronParams
    /\ params.neutronParams = tempParams.neutronParams

\* C3: immediately after the Neutron "Set Parameters" action the committed
\* neutronParams equals the draft neutronParams field for field, and the
\* committed initialPolarization, relaxationTimeConstant and xAxisUnit are
\* unchanged.
C3_NeutronCommitReplacesNeutronOnly ==
    [][lastOp' = "NeutronSetParameters" /\ ~hung' =>
          /\ params'.neutronParams = tempParams'.neutronParams
          /\ params'.initialPolarization = params.initialPolarization
          /\ params'.relaxationTimeConstant = params.relaxationTimeConstant
          /\ params'.xAxisUnit = params.xAxisUnit]_vars

C3_Witness ==
    /\ lastOp = "NeutronSetParameters"
    /\ params.neutronParams # InitialParams.neutronParams
    /\ params.neutronParams = tempParams.neutronParams
    /\ params.initialPolarization # tempParams.initialPolarization

\* C4 (as stated): in every rendered state he3Data is the time sweep of the
\* committed params over the current He-3 X range and neutronData is the sweep
\* of the committed params over the current Neutron X range and scale flag.
C4_EveryRenderIsFresh ==
    ~hung => /\ he3Data = calculateHe3Polarization(params, axisRanges)
             /\ neutronData = calculateNeutronProperties(params, axisRanges, isLogScale)

\* C5: once the handler and the effects it triggered have run, he3Data is the
\* time sweep of (committed params, current He-3 bounds) and neutronData the
\* sweep of (committed params, current Neutron bounds, current scale flag).
C5_QuiescentSeriesAreFresh ==
    Quiescent => /\ he3Data = calculateHe3Polarization(params, axisRanges)
                 /\ neutronData = calculateNeutronProperties(params, axisRanges, isLogScale)

C5_Witness ==
    /\ Quiescent
    /\ lastOp = "RunEffects"
    /\ axisRanges.he3.xMax = <<"5", "0">>
    /\ isLogScale
    /\ he3Data.xMax = 50 * Unit
    /\ neutronData.log

\* ---- sweeps
Returned(kind) == sw.pc = "done" /\ sw.kind = kind

\* w * m for a small positive integer m, exactly
MulSmall(w, m) == Carry(<< w[1] * m, w[2] * m, w[3] * m, w[4] * m >>)

\* The double w is exactly the grid value xMin + i * (xMax - xMin) / n, the
\* bounds being two-decimal numbers in units of 1 / Unit.
OnGrid(w, xMin, xMax, i, n) ==
    MulSmall(MulSmall(w, n), Unit) = MulSmall(FromInt(xMin * n + i * (xMax - xMin)), 1)

\* The swept variable of the k-th point: its time in the time sweep, its
\* wavelength or its energy, by the X-axis unit, in the Neutron sweep; that is
\* the value of the loop variable the point was pushed for.
Swept(k) == sw.pushed[k]

\* The double, or the log-sweep sample, that a swept value was made from.
DblOf(v) ==
    IF v.cls = "zero" THEN FZero
    ELSE IF v = VOne THEN FromInt(1)
    ELSE CHOOSE b \in DOMAIN v.mono : TRUE

SampleOf(v) ==
    LET b == CHOOSE t \in DOMAIN v.mono : TRUE
    IN  [ nan |-> FALSE, lo |-> b[2], hi |-> b[3], i |-> b[4] ]

SweptLess(a, b) ==
    IF sw.kind = "log"
    THEN /\ a.cls # "nan" /\ b.cls # "nan"
         /\ LogLess(SampleOf(a), SampleOf(b))
    ELSE FLess(DblOf(a), DblOf(b))

\* C6 (as stated): for every pair of parsed bounds, equal and reversed ones
\* included, the time sweep and the Neutron sweep come back with a finite
\* point list (no sweep runs until the array can grow no further).
C6_SweepsReturn == sw.pc # "crashed"

\* C7 (as stated): for Neutron bounds xMin < xMax the sweep returns exactly
\* numPoints + 1 = 201 points, in linear and in log mode.
C7_NeutronSweepHas201Points ==
    (Returned("linear") \/ Returned("log")) /\ sw.xMin < sw.xMax
        => Len(sw.pushed) = numPoints + 1

\* C8 (as stated): for He-3 bounds xMin < xMax the time sweep returns 101
\* points, the i-th at xMin + i * (xMax - xMin) / 100, the first at xMin and the
\* last at xMax.
C8_TimeSweepHas101GridPoints ==
    Returned("he3") /\ sw.xMin < sw.xMax
        => /\ Len(sw.pushed) = He3Divisions + 1
           /\ \A k \in 1..Len(sw.pushed) :
                 OnGrid(DblOf(Swept(k)), sw.xMin, sw.xMax, k - 1, He3Divisions)
           /\ Swept(1) = VDbl(ToDouble(sw.xMin))
           /\ Swept(Len(sw.pushed)) = VDbl(ToDouble(sw.xMax))

\* C9 (as stated): in every series of the time sweep, the linear and the log
\* Neutron sweep, for any bounds, consecutive points are strictly ascending in
\* the swept variable.
C9_SeriesStrictlyAscending ==
    sw.pc = "done" =>
        \A k \in 1..(Len(sw.pushed) - 1) : SweptLess(Swept(k), Swept(k + 1))

\* C10 (as stated): in log mode both arguments passed to log10 are > 0, the
\* first sample equals max(0.1, xMin) and every sample is a positive finite
\* number; in linear mode xMin is used unfloored.
C10_LogArgumentsPositive ==
    /\ sw.kind = "log" =>
          /\ sw.logArgs[1] > 0 /\ sw.logArgs[2] > 0
          /\ \A k \in 1..Len(sw.pushed) : Swept(k).cls # "nan"
    /\ sw.kind = "linear" => sw.effectiveXMin = sw.xMin

\* C10 (amended): in log mode the lower argument passed to log10 is
\* max(0.1, xMin), hence >= 0.1, and the upper argument is the parsed xMax
\* unfloored; when xMax > 0 the first sample is 10^log10(max(0.1, xMin)) and
\* every sample is a positive finite number, when xMax < 0 every sample is NaN;
\* in linear mode xMin is used unfloored.
C10_LogFloorsOnlyTheMinimum ==
    /\ sw.kind = "log" =>
          /\ sw.logArgs[1] = (IF sw.xMin > Unit \div 10 THEN sw.xMin ELSE Unit \div 10)
          /\ sw.logArgs[1] >= Unit \div 10
          /\ sw.logArgs[2] = sw.xMax
          /\ \A k \in 1..Len(sw.pushed) :
                /\ (Swept(k).cls = "nan") = (sw.xMax < 0)
                /\ Swept(k) = VLog(LogSample(sw.logArgs[1], sw.xMax, k - 1))
    /\ sw.kind = "linear" =>
          /\ sw.effectiveXMin = sw.xMin
          /\ Len(sw.pushed) > 0 => Swept(1) = VDbl(ToDouble(sw.xMin))

C10_Witness ==
    /\ Returned("log")
    /\ sw.xMin < Unit \div 10
    /\ sw.xMax > 0
    /\ Len(sw.pushed) = numPoints + 1
    /\ Swept(1) = VLog(LogSample(Unit \div 10, sw.xMax, 0))

\* ---- draft inputs
IsNumeric(typed) == SignedValue(typed) # NaN

AllNumbers(p) ==
    /\ p.initialPolarization \in Int
    /\ p.relaxationTimeConstant \in Int
    /\ p.neutronParams.gasThickness \in Int
    /\ p.neutronParams.energy[1] \in Int
    /\ p.neutronParams.energy[2] > 0
    /\ p.neutronParams.he3Polarization \in Int

\* C11: for each of the draft inputs (initial polarization, relaxation time,
\* gas thickness on both panels, energy or wavelength, He-3 polarization) an
\* edit whose typed characters are empty or no number stores 0 in that draft
\* field, and after every step each numeric field of the draft and of the
\* committed set holds a number (never NaN).
C11_MalformedInputStoresZero ==
    [][ /\ \A typed \in TypedTexts : ~IsNumeric(typed) =>
              LET text == NumberInputValue(typed)
              IN  /\ InitialPolarizationChange(text)
                        => tempParams'.initialPolarization = 0
                  /\ RelaxationTimeChange(text)
                        => tempParams'.relaxationTimeConstant = 0
                  /\ He3GasThicknessChange(text)
                        => tempParams'.neutronParams.gasThickness = 0
                  /\ EnergyOrWavelengthChange(text)
                        => tempParams'.neutronParams.energy = RatOf(0)
                  /\ NeutronHe3PolarizationChange(text)
                        => tempParams'.neutronParams.he3Polarization = 0
                  /\ NeutronGasThicknessChange(text)
                        => tempParams'.neutronParams.gasThickness = 0
        /\ AllNumbers(tempParams')
        /\ AllNumbers(params') ]_vars

\* No numeric text of TypedTexts is zero, so a 0 in a field was stored
\* by an edit with empty or non-numeric characters.
C11_Witness ==
    /\ lastOp = "NeutronSetParameters"
    /\ energyUnit = "A"
    /\ params.neutronParams.energy = RatOf(0)
    /\ tempParams.neutronParams = params.neutronParams

\* C13 (as stated, for the draft input): a value val > 0 typed into the
\* "Energy or Wavelength" input while the unit is Angstrom is stored as the
\* energy 81.81 / val^2 and the input then shows val again (the conversion
\* back, sqrt(81.81 / energy), returns val).
C13_AngstromDraftShowsTypedValue ==
    [][ \A typed \in TypedTexts :
           LET text == NumberInputValue(typed)
               val  == OrElse(parseFloat(text), 0)
           IN  EnergyOrWavelengthChange(text) /\ energyUnit = "A" /\ val > 0
                  => /\ tempParams'.neutronParams.energy = EnergyOfWavelength(val)
                     /\ EnergyInputValue(tempParams', energyUnit') = { Num(val) } ]_vars

\* ---- series values
\* The point pushed last.
LastPoint == PointAt(Len(sw.pushed))

Pushing == sw.pc \in {"loop", "done"} /\ Len(sw.pushed) > 0

IsFinite(v) == v.cls \in {"zero", "fin"}

\* C12: every iteration of a sweep pushes one point whatever the parameters
\* (so the number of points depends on the range alone), and a division by
\* zero shows as an infinite or NaN value in the point it occurs in and in no
\* other: with relaxation time 0 the point at time 0 has he3Polarization NaN
\* and the later ones 0; with committed energy 0 the wavelength of the time
\* sweep is Infinity; a swept wavelength 0 has energy Infinity, a swept energy
\* 0 has wavelength Infinity, and a swept value that is finite and not 0 has
\* finite wavelength and energy.
C12_DivisionByZeroStaysInItsPoint ==
    /\ sw.pc \in {"loop", "done"} => Len(sw.pushed) = sw.i
    /\ Pushing /\ sw.kind = "he3" =>
          /\ sw.currentParams.relaxationTimeConstant = 0 =>
                LastPoint.he3Polarization =
                    (IF LastPoint.time.cls = "zero" THEN VNaN ELSE VZero)
          /\ sw.currentParams.relaxationTimeConstant # 0 =>
                IsFinite(LastPoint.he3Polarization)
          /\ (LastPoint.wavelength.cls = "inf")
                 = (sw.currentParams.neutronParams.energy = RatOf(0))
    /\ Pushing /\ sw.kind # "he3" =>
          /\ Swept(Len(sw.pushed)).cls = "zero" /\ sw.unit = "wavelength" =>
                LastPoint.energy.cls = "inf" /\ LastPoint.wavelength.cls = "zero"
          /\ Swept(Len(sw.pushed)).cls = "zero" /\ sw.unit = "energy" =>
                LastPoint.wavelength.cls = "inf" /\ LastPoint.energy.cls = "zero"
          /\ Swept(Len(sw.pushed)).cls = "fin" =>
                LastPoint.wavelength.cls = "fin" /\ LastPoint.energy.cls = "fin"

C12_Witness ==
    /\ Returned("he3")
    /\ sw.currentParams.relaxationTimeConstant = 0
    /\ sw.currentParams.neutronParams.energy = RatOf(0)
    /\ Len(sw.pushed) >= He3Divisions
    /\ PointAt(1).he3Polarization = VNaN
    /\ LastPoint.he3Polarization = VZero
    /\ LastPoint.neutronTransmission = VNaN

\* The arguments addDataPoint passes to the formula functions.
He3Fraction == VDiv(VNum(sw.currentParams.neutronParams.he3Polarization), VInt(100))

GasThickness == VNum(sw.currentParams.neutronParams.gasThickness)

\* exp(-commonFactor(wavelength) * gasThickness) * 100
UnpolarizedTransmission(wavelength) ==
    VMul(VExp(VNeg(VMul(calculateCommonFactors(wavelength), GasThickness))), VInt(100))

He3PointAtTimeZero ==
    /\ Pushing /\ sw.kind = "he3"
    /\ sw.currentParams.relaxationTimeConstant > 0
    /\ LastPoint.time.cls = "zero"

NeutronPointUnpolarized ==
    /\ Pushing /\ sw.kind # "he3"
    /\ sw.currentParams.neutronParams.he3Polarization = 0

\* C14 (as stated): the point of the time sweep at time 0 has he3Polarization
\* exactly the committed initialPolarization whenever the relaxation time is
\* > 0; with committed He-3 polarization 0 every point of the Neutron sweep has
\* neutronPolarization 0, neutronTransmission exp(-commonFactor(wavelength) *
\* gasThickness) * 100 and figureOfMerit 0.
C14_BoundaryValues ==
    /\ He3PointAtTimeZero =>
          LastPoint.he3Polarization = VNum(sw.currentParams.initialPolarization)
    /\ NeutronPointUnpolarized =>
          /\ LastPoint.neutronPolarization = VZero
          /\ LastPoint.neutronTransmission = UnpolarizedTransmission(LastPoint.wavelength)
          /\ LastPoint.figureOfMerit = VZero

\* C14 (amended): the point of the time sweep at time 0 has he3Polarization
\* exactly the committed initialPolarization whenever the relaxation time is
\* > 0 (and so has calculatePolarization at time 0); with committed He-3
\* polarization 0 every point of the Neutron sweep whose wavelength is finite
\* has neutronPolarization 0, neutronTransmission exp(-commonFactor(wavelength)
\* * gasThickness) * 100 and figureOfMerit 0, and a point whose wavelength is
\* Infinity (swept energy 0) or NaN (log sweep with xMax < 0) has the three
\* values NaN.
C14_BoundaryValuesAtFiniteWavelength ==
    /\ He3PointAtTimeZero =>
          /\ LastPoint.he3Polarization = VNum(sw.currentParams.initialPolarization)
          /\ calculatePolarization(LastPoint.time, sw.currentParams)
                = VNum(sw.currentParams.initialPolarization)
    /\ NeutronPointUnpolarized =>
          IF IsFinite(LastPoint.wavelength)
          THEN /\ LastPoint.neutronPolarization = VZero
               /\ LastPoint.neutronTransmission =
                     UnpolarizedTransmission(LastPoint.wavelength)
               /\ LastPoint.figureOfMerit = VZero
          ELSE /\ LastPoint.neutronPolarization = VNaN
               /\ LastPoint.neutronTransmission = VNaN
               /\ LastPoint.figureOfMerit = VNaN

C14_Witness ==
    /\ Returned("linear")
    /\ sw.unit = "energy"
    /\ sw.currentParams.neutronParams.he3Polarization = 0
    /\ sw.currentParams.neutronParams.gasThickness > 0
    /\ Len(sw.pushed) >= numPoints
    /\ PointAt(1).neutronPolarization = VNaN
    /\ LastPoint.neutronPolarization = VZero
    /\ LastPoint.neutronTransmission.cls = "fin"

\* ---- order of the decaying values
\* a <= b for two values that are 0, a double or minus a double.
SignedLessEq(a, b) ==
    IF a.cls = "fin" /\ a.neg
    THEN IF b.cls = "fin" /\ b.neg THEN FLessEq(DblOf(VAbs(b)), DblOf(VAbs(a))) ELSE TRUE
    ELSE IF b.cls = "fin" /\ b.neg THEN FALSE ELSE FLessEq(DblOf(a), DblOf(b))

\* A decaying value is c * exp(arg), or c itself when arg = 0.
Coefficient(v) == [v EXCEPT !.fns = <<>>]

Exponent(v) == IF v.fns = <<>> THEN VZero ELSE v.fns[1].arg

\* a <= b for c * exp(arg_a) and c * exp(arg_b), c > 0, whose exponents are
\* multiples of 1 / scale, scale > 0: exp is increasing, so the values compare
\* as arg_a * scale and arg_b * scale do.
DecayLessEq(a, b, scale) ==
    /\ Coefficient(a) = Coefficient(b)
    /\ SignedLessEq(VMul(Exponent(a), scale), VMul(Exponent(b), scale))

DecayingSeries ==
    /\ Pushing /\ sw.kind = "he3"
    /\ sw.currentParams.initialPolarization > 0
    /\ sw.currentParams.relaxationTimeConstant > 0

\* C15: for committed initialPolarization > 0 and relaxationTimeConstant > 0
\* the he3Polarization of a point of the time sweep is never larger than that
\* of the point before it, whose time is not larger (so the values are
\* non-increasing along the series), and never exceeds initialPolarization
\* for time >= 0; the same holds of calculatePolarization at these times.
C15_DecayIsMonotone ==
    DecayingSeries =>
        LET n  == Len(sw.pushed)
            P0 == VNum(sw.currentParams.initialPolarization)
            T1 == VNum(sw.currentParams.relaxationTimeConstant)
            T60 == VMul(T1, VInt(60))
            calc(k) == calculatePolarization(PointAt(k).time, sw.currentParams)
        IN  /\ DecayLessEq(LastPoint.he3Polarization, P0, T1)
            /\ DecayLessEq(calc(n), P0, T60)
            /\ n > 1 =>
                  /\ SignedLessEq(PointAt(n - 1).time, LastPoint.time)
                  /\ DecayLessEq(LastPoint.he3Polarization,
                                 PointAt(n - 1).he3Polarization, T1)
                  /\ DecayLessEq(calc(n), calc(n - 1), T60)

C15_Witness ==
    /\ Returned("he3")
    /\ sw.currentParams.relaxationTimeConstant = 50 * Unit
    /\ Len(sw.pushed) >= He3Divisions
    /\ PointAt(1).he3Polarization = VNum(sw.currentParams.initialPolarization)
    /\ LastPoint.he3Polarization # PointAt(1).he3Polarization
    /\ DecayLessEq(LastPoint.he3Polarization, PointAt(1).he3Polarization,
                   VNum(sw.currentParams.relaxationTimeConstant))

\* ---- decimal values of the products
\* A positive decimal number m * 10^e, m without trailing zeros.
RECURSIVE Dec(_, _)
Dec(m, e) == IF m % 10 = 0 THEN Dec(m \div 10, e + 1) ELSE [m |-> m, e |-> e]

DecMul(a, b) == Dec(a.m * b.m, a.e + b.e)

\* The number a factor of a monomial stands for: a named constant of the
\* source, or the double of an integer.
DecOfFactor(b) ==
    IF Len(b) = 1
    THEN IF b[1] = "2.687e19" THEN Dec(2687, 16) ELSE Dec(1, 0 - 24)
    ELSE Dec(b[4] \div 16, 0)

IsDecFactor(b) ==
    \/ Len(b) = 1
    \/ Len(b) = 4 /\ b[1] = 0 /\ b[2] = 0 /\ b[3] = 0 /\ b[4] % 16 = 0

\* The product of the factors of the set fs that the monomial holds with
\* the sign sgn of the exponent (the exponents of these products are 1).
RECURSIVE DecOfFactors(_, _, _)
DecOfFactors(mono, fs, sgn) ==
    IF fs = {} THEN Dec(1, 0)
    ELSE LET b == CHOOSE x \in fs : TRUE
             rest == DecOfFactors(mono, fs \ {b}, sgn)
         IN  IF mono[b] = 2 * sgn THEN DecMul(DecOfFactor(b), rest) ELSE rest

IsDecimal(v) ==
    /\ v.cls = "fin" /\ ~v.neg /\ v.fns = <<>>
    /\ \A b \in DOMAIN v.mono : IsDecFactor(b) /\ v.mono[b] \in {2, 0 - 2}

\* Four decimals of fixed point for the enclosures.
Scale == 10^4

\* floor and ceiling of v * Scale for a decimal v below 10^5.
ScaledFloor(v) ==
    LET n == DecOfFactors(v.mono, DOMAIN v.mono, 1)
        d == DecOfFactors(v.mono, DOMAIN v.mono, 0 - 1)
        e == n.e - d.e + 4
    IN  IF e >= 0 THEN (n.m * 10^e) \div d.m
        ELSE IF e < 0 - 9 THEN 0
        ELSE (n.m \div 10^(0 - e)) \div d.m

ScaledCeil(v) == ScaledFloor(v) + 1

\* Bounds of exp(X / Scale) * Scale for 0 <= X <= 3 * Scale: the Taylor
\* series to the term of order ExpOrder, each term rounded down or up; the
\* remainder is below one unit.
ExpOrder == 14

RECURSIVE ExpSum(_, _, _, _, _)
ExpSum(X, k, term, acc, up) ==
    IF k > ExpOrder THEN acc + (IF up THEN 1 ELSE 0)
    ELSE LET t == (term * X + (IF up THEN Scale * k - 1 ELSE 0)) \div (Scale * k)
         IN  ExpSum(X, k + 1, t, acc + t, up)

ExpFloor(X) == ExpSum(X, 1, Scale, Scale, FALSE)

ExpCeil(X) == ExpSum(X, 1, Scale, Scale, TRUE)

\* Bounds of tanh(x) * 100, in hundredths, from the bounds of x * Scale:
\* tanh(x) = (exp(2x) - 1) / (exp(2x) + 1) increases with x, and is above
\* 0.9999 from x = 5 on.
TanhPercentFloor(X) ==
    IF X >= 5 * Scale THEN 9999
    ELSE (10^4 * (ExpFloor(2 * X) - Scale)) \div (ExpFloor(2 * X) + Scale)

TanhPercentCeil(X) ==
    IF X >= 5 * Scale THEN 10^4
    ELSE (10^4 * (ExpCeil(2 * X) - Scale)) \div (ExpCeil(2 * X) + Scale) + 1

\* The point of the reference scenario: wavelength 1.8, P_He = 0.70, d = 10.
ReferencePoint ==
    /\ Pushing /\ sw.kind = "linear" /\ sw.unit = "wavelength"
    /\ LastPoint.wavelength = ReferenceWavelength
    /\ sw.currentParams.neutronParams.he3Polarization = 70 * Unit
    /\ sw.currentParams.neutronParams.gasThickness = 10 * Unit

ReferenceArgument ==
    VMul(VMul(calculateCommonFactors(LastPoint.wavelength),
              VDiv(VNum(sw.currentParams.neutronParams.he3Polarization), VInt(100))),
         VNum(sw.currentParams.neutronParams.gasThickness))

ReferenceFactorIsProduct ==
    /\ calculateCommonFactors(LastPoint.wavelength)
           = VMul(VMul(NumberDensity, sigma0), barn_to_cm2)
    /\ IsDecimal(calculateCommonFactors(LastPoint.wavelength))
    /\ LastPoint.neutronPolarization = VMul(VTanh(ReferenceArgument), VInt(100))
    /\ IsDecimal(ReferenceArgument)

\* C16 as stated: in the reference scenario the common factor is
\* n * sigma0 * barn_to_cm2, it is 143.54 to two decimals, and the neutron
\* polarization is 100 to the nearest half percent.
C16_ReferenceScenario ==
    ReferencePoint =>
        /\ ReferenceFactorIsProduct
        /\ ScaledFloor(calculateCommonFactors(LastPoint.wavelength)) \in 1435350 .. 1435449
        /\ TanhPercentFloor(ScaledFloor(ReferenceArgument)) >= 9950

\* C16: at wavelength 1.8 the common factor is n * sigma0 * barn_to_cm2 with
\* n = 2.687e19, sigma0 = 5333, barn_to_cm2 = 1e-24, which is 0.1433 to four
\* decimals, and with P_He = 0.70 and d = 10 the neutron polarization
\* tanh(factor * 0.70 * 10) * 100 lies between 76.2 and 76.4: it does not
\* saturate.
C16_ReferenceScenarioValues ==
    ReferencePoint =>
        /\ ReferenceFactorIsProduct
        /\ ScaledFloor(calculateCommonFactors(LastPoint.wavelength)) = 1432
        /\ ScaledFloor(ReferenceArgument) = 10030
        /\ TanhPercentFloor(ScaledFloor(ReferenceArgument)) >= 7620
        /\ TanhPercentCeil(ScaledCeil(ReferenceArgument)) <= 7640

C16_Witness ==
    /\ ReferencePoint
    /\ Len(sw.pushed) = 1
    /\ TanhPercentFloor(ScaledFloor(ReferenceArgument)) < 9950

\* ---- figure of merit
\* (neutronPolarization/100)^2 * (neutronTransmission/100) * 100 of a point
FigureOfMeritOf(point) ==
    LET Pn == VDiv(point.neutronPolarization, VInt(100))
        T  == VDiv(point.neutronTransmission, VInt(100))
    IN  VMul(VMul(VMul(Pn, Pn), T), VInt(100))

NeutronSeries == Pushing /\ sw.kind \in {"linear", "log"}

CommittedWavelength ==
    VSqrt(VDiv(VNum(8181), VRat(sw.currentParams.neutronParams.energy)))

NeutronPointHoldsFixed(point) ==
    /\ point.he3Polarization = VNum(sw.currentParams.neutronParams.he3Polarization)
    /\ point.time = VZero
    /\ point.neutronPolarization =
           calculateNeutronPolarization(point.wavelength, He3Fraction, GasThickness)
    /\ point.neutronTransmission =
           calculateNeutronTransmission(point.wavelength, He3Fraction, GasThickness)
    /\ point.figureOfMerit =
           calculateFigureOfMerit(point.wavelength, He3Fraction, GasThickness)

He3PointHoldsFixed(point) ==
    /\ point.wavelength = CommittedWavelength
    /\ point.energy = VRat(sw.currentParams.neutronParams.energy)

\* C18: every point of a Neutron series carries the he3Polarization of the
\* parameter set the sweep was called with and time 0, and its neutron values
\* are computed with the gasThickness of that set; every point of a He-3
\* series carries the energy of that set and the wavelength derived from it.
\* The values are those of the first point of the series, whatever the swept
\* value and the draft are.
C18_OnlySweptVariableVaries ==
    Pushing =>
        IF sw.kind = "he3"
        THEN /\ He3PointHoldsFixed(LastPoint)
             /\ LastPoint.wavelength = PointAt(1).wavelength
             /\ LastPoint.energy = PointAt(1).energy
        ELSE /\ NeutronPointHoldsFixed(LastPoint)
             /\ LastPoint.he3Polarization = PointAt(1).he3Polarization
             /\ LastPoint.time = PointAt(1).time

C18_Witness ==
    /\ Returned("linear")
    /\ Len(sw.pushed) >= numPoints
    /\ sw.currentParams.neutronParams.he3Polarization = 0
    /\ sw.currentParams.neutronParams.gasThickness = 0
    /\ tempParams.neutronParams.he3Polarization = 70 * Unit
    /\ tempParams.neutronParams.gasThickness = 10 * Unit
    /\ LastPoint.he3Polarization = VZero
    /\ LastPoint.wavelength # PointAt(1).wavelength

AscendingByTime(points) ==
    \A i \in 1..(Len(points) - 1) : points[i].time <= points[i + 1].time

\* C20: for every measured data list reached by adding, clearing and
\* importing, importing the text handleExportData produces for it yields the
\* same list of (time, polarization) pairs, sorted by time ascending; the
\* empty list included.
C20_CsvRoundTrip ==
    /\ ImportedData(csvContent(plot.data)) = plot.data
    /\ AscendingByTime(plot.data)

C20_Witness ==
    /\ plot.op = "import"
    /\ plot.file.exists /\ plot.file.text = csvContent(plot.data)
    /\ Len(plot.data) = MaxData
    /\ plot.data[1].time < 0
    /\ plot.data[1].polarization = 5
    /\ ImportedData(plot.file.text) = plot.data

\* ---- CSV import
\* The rows of a file after its first line whose two fields are numbers.
AcceptedRows(text) == PointsOfLines(Tail(Split(text, "\n")))

\* C21 as stated: an import skips the first line, discards the rows with a
\* field that is no number, merges the accepted rows with the points already
\* held and leaves the list sorted by time ascending.
C21_ImportMergesAcceptedRows ==
    [][\A file \in ImportChoices :
          (file.exists /\ handleImportData(file)) =>
              /\ plot'.data = SortByTime(plot.data \o AcceptedRows(file.text))
              /\ AscendingByTime(plot'.data)]_vars

\* ---- axis-range edits
\* C22: handleAxisRangeChange(graph, field, value) sets axisRanges[graph][field]
\* to the typed string and leaves every other field of both charts, the
\* committed params, the draft and isLogScale as they were; so an edit keeps
\* the edits made before it.
C22_AxisEditTouchesOneField ==
    [][\A graph \in Graphs, field \in Fields, value \in AxisTexts :
          handleAxisRangeChange(graph, field, value) =>
              /\ axisRanges' = [axisRanges EXCEPT ![graph][field] = value]
              /\ axisRanges'[graph][field] = value
              /\ params' = params
              /\ tempParams' = tempParams
              /\ isLogScale' = isLogScale]_vars

C22_Witness ==
    /\ lastOp = "handleAxisRangeChange"
    /\ axisRanges.he3.xMax = <<"5", "0">>
    /\ axisRanges.neutron.yMin = <<"5", "0">>
    /\ \A graph \in Graphs, field \in Fields :
          <<graph, field>> \notin {<<"he3", "xMax">>, <<"neutron", "yMin">>} =>
              axisRanges[graph][field] = InitialAxisRanges[graph][field]

\* ---- commits copy the draft
\* The committed set already holds what the He-3 commit, the Neutron commit
\* copies: the state a commit leaves behind while the draft is not edited.
He3Committed ==
    /\ params.initialPolarization = tempParams.initialPolarization
    /\ params.relaxationTimeConstant = tempParams.relaxationTimeConstant
    /\ params.neutronParams = tempParams.neutronParams

NeutronCommitted == params.neutronParams = tempParams.neutronParams

SeriesKept ==
    /\ params' = params /\ he3Data' = he3Data /\ neutronData' = neutronData

\* C23: both "Set Parameters" actions leave the draft as it is; a commit
\* made when the committed set already holds the draft's values (the commit
\* repeated with no draft edit in between) changes neither the committed
\* params nor a series, and the effects that follow it leave them as well.
C23_CommitKeepsDraftAndIsIdempotent ==
    [][/\ lastOp' \in Commits => /\ tempParams' = tempParams
                                  /\ (lastOp' = "He3SetParameters" => He3Committed')
                                  /\ NeutronCommitted'
       /\ (He3SetParameters /\ He3Committed) => SeriesKept
       /\ (NeutronSetParameters /\ NeutronCommitted) => SeriesKept
       /\ (RunEffects /\ lastOp \in Commits /\ C4_EveryRenderIsFresh)
             => SeriesKept]_vars

C23_Witness ==
    /\ lastOp = "He3SetParameters"
    /\ nOps = MaxOps
    /\ ~hung
    /\ He3Committed
    /\ params.initialPolarization = 50 * Unit
    /\ tempParams = [InitialParams EXCEPT !.initialPolarization = 50 * Unit]
    /\ axisRanges = InitialAxisRanges
    /\ C4_EveryRenderIsFresh

\* ---- draft edits
DraftEdits ==
    { "InitialPolarizationChange", "RelaxationTimeChange", "He3GasThicknessChange",
      "EnergyOrWavelengthChange", "EnergyUnitChange",
      "NeutronHe3PolarizationChange", "NeutronGasThicknessChange" }

\* C24: an edit of a draft field (initial polarization, relaxation time, gas
\* thickness, energy or wavelength value, energy unit selector, He-3
\* polarization) leaves the committed params, he3Data and neutronData as they
\* were and schedules no effect; so does every sequence of such edits.
C24_DraftEditsAreNotApplied ==
    [][(lastOp' \in DraftEdits /\ nOps' = nOps + 1) =>
          /\ params' = params
          /\ he3Data' = he3Data
          /\ neutronData' = neutronData
          /\ effects' = effects
          /\ effects = <<FALSE, FALSE>>]_vars

C24_Witness ==
    /\ lastOp \in DraftEdits
    /\ nOps = MaxOps
    /\ params = InitialParams
    /\ tempParams.initialPolarization # params.initialPolarization
    /\ tempParams.relaxationTimeConstant # params.relaxationTimeConstant
    /\ tempParams.neutronParams.energy # params.neutronParams.energy
    /\ he3Data = calculateHe3Polarization(InitialParams, InitialAxisRanges)
    /\ neutronData = calculateNeutronProperties(InitialParams, InitialAxisRanges, FALSE)

\* ---- X-axis unit
\* C25: selecting an X-axis unit sets the committed xAxisUnit to it at once
\* and leaves every other committed field, the draft and the axis-range
\* texts as they were; no commit changes xAxisUnit; and the xAxisUnit of the
\* draft is "wavelength" in every state.
C25_UnitSelectionChangesOnlyXAxisUnit ==
    [][/\ \A unit \in {"wavelength", "energy"} :
             XAxisUnitChange(unit) =>
                 /\ params' = [params EXCEPT !.xAxisUnit = unit]
                 /\ params'.xAxisUnit = unit
                 /\ tempParams' = tempParams
                 /\ axisRanges' = axisRanges
                 /\ isLogScale' = isLogScale
       /\ lastOp' \in Commits => params'.xAxisUnit = params.xAxisUnit
       /\ tempParams.xAxisUnit = "wavelength"
       /\ tempParams'.xAxisUnit = "wavelength"]_vars

C25_Witness ==
    /\ lastOp = "NeutronSetParameters"
    /\ params.xAxisUnit = "energy"
    /\ tempParams.xAxisUnit = "wavelength"
    /\ params.neutronParams = tempParams.neutronParams
    /\ params.neutronParams # InitialParams.neutronParams
    /\ axisRanges = InitialAxisRanges

\* ---- the measured data list
\* C26: in every state reached by adding, clearing and importing, the
\* measured data list is sorted by time ascending: data[i].time <=
\* data[i+1].time for all adjacent points.
C26_DataSortedByTime ==
    \A i \in 1..(Len(plot.data) - 1) : plot.data[i].time <= plot.data[i + 1].time

C26_Witness ==
    /\ plot.op = "add"
    /\ Len(plot.data) = MaxData
    /\ plot.data[1].time = 0 - 250
    /\ plot.data[Len(plot.data)].time = 3 * Unit
    /\ plot.timeInput = <<>> /\ plot.polarizationInput = <<>>

RemoveAt(points, k) == SubSeq(points, 1, k - 1) \o SubSeq(points, k + 1, Len(points))

InputsKept ==
    /\ plot'.timeInput = plot.timeInput
    /\ plot'.polarizationInput = plot.polarizationInput

\* C27: handleAddData with a time text or a polarization text that does not
\* parse to a number leaves the data list and both input texts as they were;
\* with two texts that parse, the list afterwards is the list before with
\* that one point inserted, and both input texts are empty.  handleClearData
\* empties the list and leaves the input texts.
C27_AddRejectsInvalidInput ==
    [][/\ handleAddData =>
             LET time == parseFloat(plot.timeInput)
                 polarization == parseFloat(plot.polarizationInput)
             IN  IF time = NaN \/ polarization = NaN
                 THEN plot'.data = plot.data /\ InputsKept
                 ELSE /\ Len(plot'.data) = Len(plot.data) + 1
                      /\ \E k \in 1..Len(plot'.data) :
                            /\ plot'.data[k] = [time |-> time[1],
                                                polarization |-> polarization[1]]
                            /\ RemoveAt(plot'.data, k) = plot.data
                      /\ plot'.timeInput = <<>>
                      /\ plot'.polarizationInput = <<>>
       /\ handleClearData => (plot'.data = <<>> /\ InputsKept)]_vars

C27_Witness ==
    /\ plot.op = "add"
    /\ Len(plot.data) = 1
    /\ plot.timeInput = <<"3">>
    /\ plot.polarizationInput = <<>>

\* ---- axis bounds
\* Number(text) || fallback, case by case.
UsedBound(text, fallback) ==
    IF Number(text) = NaN \/ Number(text) = Num(0) THEN fallback ELSE Number(text)[1]

\* C28: the sweeps take a bound whose text is empty, no number or 0 as 0
\* (xMin), 24 (He-3 xMax), 10 (Neutron xMax) and any other text as its
\* number, so xMax is never 0; the range the sampler uses (with the log floor
\* on the Neutron minimum) is the X domain handed to the chart for the same
\* axisRanges and scale flag, and it is the range of the series shown once
\* the effects have run.
C28_BoundsFallBackAndMatchDomain ==
    LET h == calculateHe3Polarization(params, axisRanges)
        n == calculateNeutronProperties(params, axisRanges, isLogScale)
    IN  /\ h.xMin = UsedBound(axisRanges.he3.xMin, 0)
        /\ h.xMax = UsedBound(axisRanges.he3.xMax, 24 * Unit)
        /\ n.xMax = UsedBound(axisRanges.neutron.xMax, 10 * Unit)
        /\ n.xMin = IF isLogScale THEN LogFloor(UsedBound(axisRanges.neutron.xMin, 0))
                                  ELSE UsedBound(axisRanges.neutron.xMin, 0)
        /\ h.xMax # 0 /\ n.xMax # 0
        /\ <<h.xMin, h.xMax>> = He3XAxisDomain(axisRanges)
        /\ <<n.xMin, n.xMax>> = NeutronXAxisDomain(axisRanges, isLogScale)
        /\ Quiescent =>
              /\ <<he3Data.xMin, he3Data.xMax>> = He3XAxisDomain(axisRanges)
              /\ <<neutronData.xMin, neutronData.xMax>>
                    = NeutronXAxisDomain(axisRanges, isLogScale)

C28_Witness ==
    /\ Quiescent
    /\ isLogScale
    /\ axisRanges.neutron.xMin = <<>>
    /\ axisRanges.neutron.xMax = <<"0">>
    /\ neutronData.xMin = Unit \div 10
    /\ neutronData.xMax = 10 * Unit
    /\ <<neutronData.xMin, neutronData.xMax>> = NeutronXAxisDomain(axisRanges, isLogScale)

\* ---- tabs
\* C29: activeTab is "plot" or "functions" and starts as "plot"; a switch to
\* "plot" (which can only come from "functions") leaves the committed params,
\* the draft, the axis ranges and the scale flag at their defaults, whatever
\* they were before the switch to "functions".
C29_TabSwitchResetsParameterStore ==
    /\ activeTab = "plot"
    /\ [][/\ activeTab \in Tabs /\ activeTab' \in Tabs
          /\ SetActiveTab("plot") =>
                /\ activeTab = "functions"
                /\ params' = InitialParams
                /\ tempParams' = InitialParams
                /\ axisRanges' = InitialAxisRanges
                /\ isLogScale' = FALSE]_vars

C29_Witness ==
    /\ activeTab = "plot"
    /\ lastOp = "mount"
    /\ nOps = MaxOps
    /\ params = InitialParams
    /\ tempParams = InitialParams
    /\ axisRanges = InitialAxisRanges
    /\ ~isLogScale
    /\ effects = <<TRUE, TRUE>>

\* ---- the energy draft
\* C30: with the unit selector on the wavelength unit, a typed val > 0 stores
\* the draft energy 81.81 / val^2, and val <= 0 or characters that are no
\* number store exactly 0; with the selector on meV the typed value itself
\* is stored (0 for characters that are no number); a change of the unit
\* selector alone leaves the stored draft energy as it is.
C30_WavelengthEntryIsGuarded ==
    [][/\ \A typed \in TypedTexts :
             EnergyOrWavelengthChange(NumberInputValue(typed)) =>
                 LET val    == parseFloat(NumberInputValue(typed))
                     energy == tempParams'.neutronParams.energy
                 IN  /\ energy[2] > 0
                     /\ IF energyUnit = "A"
                        THEN IF val # NaN /\ val[1] > 0
                             THEN energy = Rat(8181 * Unit, val[1] * val[1]) /\ energy[1] > 0
                             ELSE energy = <<0, 1>>
                        ELSE IF val = NaN THEN energy = <<0, 1>>
                             ELSE energy[1] * Unit = val[1] * energy[2]
       /\ \A unit \in {"meV", "A"} :
             EnergyUnitChange(unit) => tempParams' = tempParams]_vars

C30_Witness ==
    /\ lastOp = "EnergyOrWavelengthChange"
    /\ energyUnit = "A"
    /\ nOps = MaxOps
    /\ tempParams.neutronParams.energy = <<0, 1>>
    /\ params.neutronParams.energy = RatOf(1470)

====
